---------------------------- MODULE Spec2Model ----------------------------
(***************************************************************************)
(* Crash-log forensics of hmxmilohax/matchstack.                           *)
(*                                                                         *)
(*   stack_trace_read.py  reads a linker map and a log, resolves the       *)
(*                        addresses of the log's stack trace, writes the   *)
(*                        resolved-stack file;                             *)
(*   map_debug.py         runs the reader, then scans the same log for     *)
(*                        FAIL-MSG lines, the Data Stack Trace block and   *)
(*                        the gated (file X.dta, line N) references, and   *)
(*                        invokes the snippet tool for each reference.     *)
(*                                                                         *)
(* Text is modelled character by character: a line is a TLA+ string that   *)
(* ends with its newline, and the regular expressions of the source are    *)
(* run by a backtracking matcher with Python's priorities (greedy, lazy,   *)
(* optional first).                                                        *)
(***************************************************************************)
EXTENDS Integers, Sequences, FiniteSets, TLC

(***************************************************************************)
(* Characters and strings                                                  *)
(***************************************************************************)
Digits == {"0", "1", "2", "3", "4", "5", "6", "7", "8", "9"}

HexLetters == {"a", "b", "c", "d", "e", "f", "A", "B", "C", "D", "E", "F"}

HexDigits == Digits \cup HexLetters

Letters ==
    {"a", "b", "c", "d", "e", "f", "g", "h", "i", "j", "k", "l", "m", "n",
     "o", "p", "q", "r", "s", "t", "u", "v", "w", "x", "y", "z",
     "A", "B", "C", "D", "E", "F", "G", "H", "I", "J", "K", "L", "M", "N",
     "O", "P", "Q", "R", "S", "T", "U", "V", "W", "X", "Y", "Z"}

\* \w of Python's re (ASCII part)
WordChars == Letters \cup Digits \cup {"_"}

\* \s of Python's re, which is also what str.strip() removes
Space == {" ", "\t", "\n", "\r", "\f"}

\* s[i] of a string, 1-based
Ch(s, i) == SubSeq(s, i, i)

\* Python's sub in s
Contains(s, sub) ==
    \E i \in 1..(Len(s) - Len(sub) + 1) : SubSeq(s, i, i + Len(sub) - 1) = sub

\* Python's s.startswith(p)
StartsWith(s, p) == Len(p) <= Len(s) /\ SubSeq(s, 1, Len(p)) = p

\* the least index at which sub occurs in s, 0 when it does not (str.find, 1-based)
Find(s, sub) ==
    IF Contains(s, sub)
    THEN CHOOSE i \in 1..(Len(s) - Len(sub) + 1) :
            /\ SubSeq(s, i, i + Len(sub) - 1) = sub
            /\ \A j \in 1..(i - 1) : SubSeq(s, j, j + Len(sub) - 1) # sub
    ELSE 0

RECURSIVE RStrip(_)
\* Python's s.rstrip()
RStrip(s) ==
    IF Len(s) > 0 /\ Ch(s, Len(s)) \in Space
    THEN RStrip(SubSeq(s, 1, Len(s) - 1))
    ELSE s

RECURSIVE LStrip(_)
LStrip(s) ==
    IF Len(s) > 0 /\ Ch(s, 1) \in Space THEN LStrip(Tail(s)) ELSE s

\* Python's s.strip()
Strip(s) == RStrip(LStrip(s))

\* value of one hexadecimal digit
HexDigitVal(c) ==
    CASE c = "0" -> 0 [] c = "1" -> 1 [] c = "2" -> 2 [] c = "3" -> 3
      [] c = "4" -> 4 [] c = "5" -> 5 [] c = "6" -> 6 [] c = "7" -> 7
      [] c = "8" -> 8 [] c = "9" -> 9
      [] c \in {"a", "A"} -> 10 [] c \in {"b", "B"} -> 11
      [] c \in {"c", "C"} -> 12 [] c \in {"d", "D"} -> 13
      [] c \in {"e", "E"} -> 14 [] c \in {"f", "F"} -> 15

RECURSIVE HexVal(_)
\* int(s, base=16) of a string of hexadecimal digits
HexVal(s) ==
    IF Len(s) = 0 THEN 0
    ELSE 16 * HexVal(SubSeq(s, 1, Len(s) - 1)) + HexDigitVal(Ch(s, Len(s)))

RECURSIVE DecVal(_)
\* int(s) of a string of decimal digits
DecVal(s) ==
    IF Len(s) = 0 THEN 0
    ELSE 10 * DecVal(SubSeq(s, 1, Len(s) - 1)) + HexDigitVal(Ch(s, Len(s)))

HexChar(d) == Ch("0123456789abcdef", d + 1)

RECURSIVE ToHex(_)
\* f"{n:x}": lower-case hexadecimal, no padding
ToHex(n) == IF n < 16 THEN HexChar(n) ELSE ToHex(n \div 16) \o HexChar(n % 16)

RECURSIVE Spaces(_)
Spaces(n) == IF n <= 0 THEN "" ELSE " " \o Spaces(n - 1)

(***************************************************************************)
(* Regular expressions: a pattern is a sequence of items                   *)
(*   [k |-> "cls", inv, cs, lo, hi, lazy, g]  a quantified character class *)
(*   [k |-> "lit", lit, g]                    a literal string             *)
(*   [k |-> "opt", lit, g]                    (?:lit)?                     *)
(*   [k |-> "wb", g]                          \b                           *)
(* g is the number of the capturing group the item lies in (0: none).     *)
(***************************************************************************)
\* no upper limit of a quantifier (longer than any line of the model)
Inf == 999

Cls(cs, lo, hi, g) == [k |-> "cls", inv |-> FALSE, cs |-> cs, lo |-> lo, hi |-> hi, lazy |-> FALSE, g |-> g]

NotCls(cs, lo, hi, g) == [k |-> "cls", inv |-> TRUE, cs |-> cs, lo |-> lo, hi |-> hi, lazy |-> FALSE, g |-> g]

LazyNotCls(cs, lo, hi, g) == [k |-> "cls", inv |-> TRUE, cs |-> cs, lo |-> lo, hi |-> hi, lazy |-> TRUE, g |-> g]

Lit(l) == [k |-> "lit", lit |-> l, g |-> 0]

LitG(l, g) == [k |-> "lit", lit |-> l, g |-> g]

Opt(l) == [k |-> "opt", lit |-> l, g |-> 0]

WordBoundary == [k |-> "wb", g |-> 0]

ReFail == [ok |-> FALSE, ends |-> <<>>]

ClsHas(it, c) == IF it.inv THEN c \notin it.cs ELSE c \in it.cs

RECURSIVE RunLen(_, _, _, _)
\* how many characters from pos on the class item can take (at most it.hi)
RunLen(it, s, pos, n) ==
    IF n < it.hi /\ pos + n <= Len(s) /\ ClsHas(it, Ch(s, pos + n))
    THEN RunLen(it, s, pos, n + 1)
    ELSE n

LitAt(s, pos, l) == pos + Len(l) - 1 <= Len(s) /\ SubSeq(s, pos, pos + Len(l) - 1) = l

IsWordAt(s, i) == i >= 1 /\ i <= Len(s) /\ Ch(s, i) \in WordChars

RECURSIVE ReFrom(_, _, _, _)
RECURSIVE ReTry(_, _, _, _, _, _)
\* items i.. of re matched at pos: [ok, ends], ends the position after each item
ReFrom(re, i, s, pos) ==
    IF i > Len(re) THEN [ok |-> TRUE, ends |-> <<>>]
    ELSE LET it == re[i]
             with == ReFrom(re, i + 1, s, pos + Len(it.lit))
             without == ReFrom(re, i + 1, s, pos)
         IN  CASE it.k = "lit" ->
                    IF LitAt(s, pos, it.lit) /\ with.ok
                    THEN [ok |-> TRUE, ends |-> <<pos + Len(it.lit)>> \o with.ends]
                    ELSE ReFail
               [] it.k = "opt" ->
                    IF LitAt(s, pos, it.lit) /\ with.ok
                    THEN [ok |-> TRUE, ends |-> <<pos + Len(it.lit)>> \o with.ends]
                    ELSE IF without.ok
                         THEN [ok |-> TRUE, ends |-> <<pos>> \o without.ends]
                         ELSE ReFail
               [] it.k = "wb" ->
                    IF IsWordAt(s, pos - 1) # IsWordAt(s, pos) /\ without.ok
                    THEN [ok |-> TRUE, ends |-> <<pos>> \o without.ends]
                    ELSE ReFail
               [] it.k = "cls" ->
                    LET m == RunLen(it, s, pos, 0)
                    IN  IF m < it.lo THEN ReFail
                        ELSE ReTry(re, i, s, pos, IF it.lazy THEN it.lo ELSE m, m)

\* the class item i taking k characters, then k-1, ... (greedy) or k+1, ... (lazy)
ReTry(re, i, s, pos, k, m) ==
    LET it == re[i]
        rest == ReFrom(re, i + 1, s, pos + k)
    IN  IF k < it.lo \/ k > m THEN ReFail
        ELSE IF rest.ok THEN [ok |-> TRUE, ends |-> <<pos + k>> \o rest.ends]
        ELSE ReTry(re, i, s, pos, IF it.lazy THEN k + 1 ELSE k - 1, m)

\* pattern.match(s): [ok, start, ends]
ReMatch(re, s) ==
    LET r == ReFrom(re, 1, s, 1) IN [ok |-> r.ok, start |-> 1, ends |-> r.ends]

RECURSIVE ReSearchFrom(_, _, _)
ReSearchFrom(re, s, p) ==
    IF p > Len(s) + 1 THEN [ok |-> FALSE, start |-> 0, ends |-> <<>>]
    ELSE LET r == ReFrom(re, 1, s, p)
         IN  IF r.ok THEN [ok |-> TRUE, start |-> p, ends |-> r.ends]
             ELSE ReSearchFrom(re, s, p + 1)

\* pattern.search(s): the leftmost match
ReSearch(re, s) == ReSearchFrom(re, s, 1)

\* m.group(g) of a successful match m of re in s
Group(re, s, m, g) ==
    LET is == {i \in 1..Len(re) : re[i].g = g}
        first == CHOOSE i \in is : \A j \in is : i <= j
        last == CHOOSE i \in is : \A j \in is : j <= i
        from == IF first = 1 THEN m.start ELSE m.ends[first - 1]
    IN  SubSeq(s, from, m.ends[last] - 1)

(***************************************************************************)
(* The patterns of stack_trace_read.py                                     *)
(***************************************************************************)
\* \s*[0-9A-Fa-f]{8}\s+[0-9A-Fa-f]{6}\s+([0-9A-Fa-f]{8})\s+[0-9A-Fa-f]{8}\s+[0-9]+\s+(\S*?)\s+.*
map_symbol_pattern ==
    << Cls(Space, 0, Inf, 0), Cls(HexDigits, 8, 8, 0),
       Cls(Space, 1, Inf, 0), Cls(HexDigits, 6, 6, 0),
       Cls(Space, 1, Inf, 0), Cls(HexDigits, 8, 8, 1),
       Cls(Space, 1, Inf, 0), Cls(HexDigits, 8, 8, 0),
       Cls(Space, 1, Inf, 0), Cls(Digits, 1, Inf, 0),
       Cls(Space, 1, Inf, 0), LazyNotCls(Space, 0, Inf, 2),
       Cls(Space, 1, Inf, 0), NotCls({"\n"}, 0, Inf, 0) >>

\* \d+:\d+:\d+ [^:]+:\d+ N\[OSREPORT\]: (.*)
log_msg_pattern ==
    << Cls(Digits, 1, Inf, 0), Lit(":"), Cls(Digits, 1, Inf, 0), Lit(":"),
       Cls(Digits, 1, Inf, 0), Lit(" "), NotCls({":"}, 1, Inf, 0), Lit(":"),
       Cls(Digits, 1, Inf, 0), Lit(" N[OSREPORT]: "), NotCls({"\n"}, 0, Inf, 1) >>

\* the address is a whole token: white space follows the hexadecimal digits
log_addr_pattern_token ==
    << Cls(Space, 0, Inf, 0), Cls(HexDigits, 1, Inf, 1), Cls(Space, 1, Inf, 0) >>

\* mutant: decimal digits only
log_addr_pattern_decimal == << Cls(Space, 0, Inf, 0), Cls(Digits, 1, Inf, 1) >>

\* \s*([0-9A-Fa-f]+)
log_addr_pattern == << Cls(Space, 0, Inf, 0), Cls(HexDigits, 1, Inf, 1) >>

\* mutant: the group is on the back-chain token
table_row_pattern_second ==
    << Cls(Space, 0, Inf, 0), Opt("0x"), Cls(HexDigits, 1, Inf, 0), Lit(":"),
       Cls(Space, 0, Inf, 0), Opt("0x"), Cls(HexDigits, 1, Inf, 1),
       Cls(Space, 0, Inf, 0), Opt("0x"), Cls(HexDigits, 1, Inf, 0) >>

\* \s*(?:0x)?[0-9A-Fa-f]+:\s*(?:0x)?[0-9A-Fa-f]+\s*(?:0x)?([0-9A-Fa-f]+)
table_row_pattern ==
    << Cls(Space, 0, Inf, 0), Opt("0x"), Cls(HexDigits, 1, Inf, 0), Lit(":"),
       Cls(Space, 0, Inf, 0), Opt("0x"), Cls(HexDigits, 1, Inf, 0),
       Cls(Space, 0, Inf, 0), Opt("0x"), Cls(HexDigits, 1, Inf, 1) >>

(***************************************************************************)
(* The patterns of map_debug.py                                            *)
(***************************************************************************)
\* FAIL-MSG:\s*(.*)
fail_pattern ==
    << Lit("FAIL-MSG:"), Cls(Space, 0, Inf, 0), NotCls({"\n"}, 0, Inf, 1) >>

\* \b(\S+\.\w+)\((\d+)\)
path_pattern ==
    << WordBoundary, NotCls(Space, 1, Inf, 1), LitG(".", 1),
       Cls(WordChars, 1, Inf, 1), Lit("("), Cls(Digits, 1, Inf, 2), Lit(")") >>

\* \(file\s+([^,]+\.dta),\s*line\s*(\d+)\)
pattern ==
    << Lit("(file"), Cls(Space, 1, Inf, 0), NotCls({","}, 1, Inf, 1),
       LitG(".dta", 1), Lit(","), Cls(Space, 0, Inf, 0), Lit("line"),
       Cls(Space, 0, Inf, 0), Cls(Digits, 1, Inf, 2), Lit(")") >>

(***************************************************************************)
(* Bounds of the model and the lines its inputs are drawn from             *)
(***************************************************************************)
\* map files hold at most MaxMapLines lines
MaxMapLines == 3

\* a resolver log holds the trigger line and at most MaxAddrs address lines
MaxAddrs == 1

\* an old-format parser log holds at most MaxLogLines lines
MaxLogLines == 4

\* a table-format parser log holds at most MaxTableLines lines
MaxTableLines == 3

\* the log header "<h>:<m>:<s> <source>:<line> N[OSREPORT]: "
Hdr == "0:0:0 f:0 N[OSREPORT]: "

\* map lines: symbols f at 0x10, g and h both at 0x20, k at 0x30, and a line
\* that is no symbol line
MapLineF == "00000000 000010 00000010 00000000 1 f x.o\n"

MapLineG == "00000000 000010 00000020 00000000 1 g x.o\n"

MapLineH == "00000000 000010 00000020 00000000 1 h x.o\n"

MapLineK == "00000000 000010 00000030 00000000 1 k x.o\n"

MapLineJunk == "  .text section layout\n"

MapVocab == {MapLineF, MapLineG, MapLineH, MapLineK, MapLineJunk}

\* the map of the parser runs: g at 0x20 before f at 0x10 (file order unsorted)
ParserMap == <<MapLineG, MapLineF>>

OldTrigger == Hdr \o "Stack Trace (map file unavailable)\n"

TableTrigger == Hdr \o "Address:      Back Chain    LR Save\n"

\* address lines: below every symbol, at a symbol's start, between two symbols
AddrVocab == {"f\n", "10\n", "20\n", "2a\n"}

\* old-format logs: trigger with and without header, addresses, a non-hex line
OldVocab ==
    { OldTrigger, "Stack Trace (map file unavailable)\n",
      "f\n", "2a\n", Hdr \o "10\n", "--\n" }

\* table-format logs: trigger, rows (third token 0x2a; first 0x5, second 0x10),
\* a row of two tokens, a line that is no row
TableVocab ==
    { TableTrigger, OldTrigger, Hdr \o "0x5: 0x10 0x2a\n", "5: 10 2a\n",
      "0x5: 0x30\n", "--\n" }

RECURSIVE SeqsUpTo(_, _)
\* the sequences over S of length at most n
SeqsUpTo(S, n) ==
    IF n = 0 THEN {<<>>}
    ELSE LET shorter == SeqsUpTo(S, n - 1)
         IN  shorter \cup {Append(q, e) : q \in {r \in shorter : Len(r) = n - 1}, e \in S}

(***************************************************************************)
(* stack_trace_read.py                                                     *)
(***************************************************************************)
VARIABLES
    map_file,             \* the lines of the map file (input, read only)
    log_file,             \* the lines of the log file (input, read only)
    pc,                   \* where the script is
    demangle,             \* TRUE: cwdemangle answered the probe
    map_symbols,          \* list of <<address, symbol>>
    map_addrs,            \* the addresses of map_symbols
    i,                    \* index of the next line (or frame) of the running loop
    stack_trace_found,
    table_trace_found,
    trace_addrs,          \* history: the value of `address` at each lookup
    demangle_raised,      \* history: at each lookup, whether demangle(symbol) raised
    stack_trace_symbols,  \* list of <<address, symbol, demangled>>
    output_file           \* the lines written to the resolved-stack file

(***************************************************************************)
(* map_debug.py                                                            *)
(***************************************************************************)
VARIABLES
    fs,                   \* the paths that exist on disk (input, read only)
    dpc,                  \* where main() is
    exception,            \* the exception that ended main(), "" if none
    fails,                \* extract_fail_messages: msgs
    seen,                 \* show_data_stack_trace: seen
    dst_lines,            \* show_data_stack_trace: the block lines printed
    seen_failed,          \* find_dta_references: seen_failed
    seen_start,           \* find_dta_references: seen_start
    refs_set,             \* find_dta_references: refs, a set of <<path, line>>
    refs,                 \* main: refs, the sorted list returned
    j,                    \* index of the next line (or reference) of the running loop
    snippets,             \* run_dta_debug: the <<path, lineno>> the snippet tool was run on
    no_refs_reported,     \* main: "No post-trace .dta references found." was printed
    scan_at               \* per scan function: the index of the line its loop reads next

readerVars ==
    << map_file, pc, demangle, map_symbols, map_addrs, i, stack_trace_found,
       table_trace_found, trace_addrs, demangle_raised, stack_trace_symbols,
       output_file >>

debugVars ==
    << fs, dpc, exception, fails, seen, dst_lines, seen_failed, seen_start,
       refs_set, refs, j, snippets, no_refs_reported, scan_at >>

vars == << log_file, readerVars, debugVars >>

\* the three scan functions of map_debug.py, each with its own file object
Scans == {"extract_fail_messages", "show_data_stack_trace", "find_dta_references"}

\* every scan at the first line of the log
ScansAtStart == [s \in Scans |-> 1]

\* Python's None for `demangled`; a name d is <<d>>
None == <<>>

\* the header stripped: match.group(1) if match else line
Message(line) ==
    LET match == ReMatch(log_msg_pattern, line)
    IN  IF match.ok THEN Group(log_msg_pattern, line, match, 1) ELSE line

\* the start of an old-style trace
IsOldTrigger(message) == message = "Stack Trace (map file unavailable)"

\* the start of a table-style trace
IsTableTrigger(message) == StartsWith(message, "Address:") /\ Contains(message, "LR Save")

\* pattern.search in place of pattern.match: a symbol line's shape is found
\* anywhere in the line
MapEntry_search(line) ==
    LET match == ReSearch(map_symbol_pattern, line)
    IN  IF ~match.ok THEN <<>>
        ELSE << << HexVal(Group(map_symbol_pattern, line, match, 1)),
                   Group(map_symbol_pattern, line, match, 2) >> >>

\* the map line's entry <<<<address, symbol>>>>, or <<>> when the line is skipped
MapEntry(line) ==
    LET match == ReMatch(map_symbol_pattern, line)
    IN  IF ~match.ok THEN <<>>
        ELSE << << HexVal(Group(map_symbol_pattern, line, match, 1)),
                   Group(map_symbol_pattern, line, match, 2) >> >>

RECURSIVE InsertSorted_descending(_, _)
\* the order reversed: e put behind every entry whose key is >= its own
InsertSorted_descending(q, e) ==
    IF Len(q) = 0 THEN <<e>>
    ELSE IF q[Len(q)][1] >= e[1] THEN Append(q, e)
    ELSE Append(InsertSorted_descending(SubSeq(q, 1, Len(q) - 1), e), q[Len(q)])

RECURSIVE InsertSorted_unstable(_, _)
\* an unstable sort: e put before the entries whose key equals its own
InsertSorted_unstable(q, e) ==
    IF Len(q) = 0 THEN <<e>>
    ELSE IF q[Len(q)][1] < e[1] THEN Append(q, e)
    ELSE Append(InsertSorted_unstable(SubSeq(q, 1, Len(q) - 1), e), q[Len(q)])

RECURSIVE InsertSorted(_, _)
\* e put into the sorted list q behind every entry whose key is <= its own
InsertSorted(q, e) ==
    IF Len(q) = 0 THEN <<e>>
    ELSE IF q[Len(q)][1] <= e[1] THEN Append(q, e)
    ELSE Append(InsertSorted(SubSeq(q, 1, Len(q) - 1), e), q[Len(q)])

\* mutant: the table is left in file order
Sorted_unsorted(q) == q

RECURSIVE Sorted(_)
\* sorted(q, key=lambda v: v[0]): ascending by address, stable
Sorted(q) ==
    IF Len(q) = 0 THEN <<>>
    ELSE InsertSorted(Sorted(SubSeq(q, 1, Len(q) - 1)), q[Len(q)])

RECURSIVE BisectLoop(_, _, _, _)
\* bisect.bisect_right's loop, 0-based lo and hi
BisectLoop(a, x, lo, hi) ==
    IF lo < hi
    THEN LET mid == (lo + hi) \div 2
         IN  IF x < a[mid + 1] THEN BisectLoop(a, x, lo, mid)
             ELSE BisectLoop(a, x, mid + 1, hi)
    ELSE lo

RECURSIVE BisectLeftLoop(_, _, _, _)
BisectLeftLoop(a, x, lo, hi) ==
    IF lo < hi
    THEN LET mid == (lo + hi) \div 2
         IN  IF x <= a[mid + 1] THEN BisectLeftLoop(a, x, lo, mid)
             ELSE BisectLeftLoop(a, x, mid + 1, hi)
    ELSE lo

\* mutant: bisect_left, the insertion point before equal entries
bisect_left(a, x) == BisectLeftLoop(a, x, 0, Len(a))

bisect_right(a, x) == BisectLoop(a, x, 0, Len(a))

\* mutant: the sentinel goes through the demangler like any symbol
InvalidFrame_demangled(address) == <<address, "<invalid>", <<"<invalid>">>>>

\* the frame of an address no symbol lies at or below
InvalidFrame(address) == <<address, "<invalid>", None>>

\* mutant: the invalid address is reported and dropped
InvalidBranch_dropped(address) == stack_trace_symbols

\* lines 89-92: the invalid frame is recorded and the loop goes on
InvalidBranch(address) == Append(stack_trace_symbols, InvalidFrame(address))

\* what a call of demangle(symbol) can do: raise ("raise"), or return a name
DemangleOutcomes(symbol) ==
    IF demangle THEN {<<"raise">>, <<"return", symbol \o "()">>, <<"return", "">>}
    ELSE {<<"raise">>}

\* the handler keeps the exception's text as the name
Demangled_message(outcome) ==
    IF outcome[1] = "raise" THEN <<"cwdemangle not available">> ELSE <<outcome[2]>>

\* try: demangled = demangle(symbol) / except: demangled = None
Demangled(outcome) == IF outcome[1] = "raise" THEN None ELSE <<outcome[2]>>

\* the address of a trace line's message, <<>> when the line ends the trace
ParseAddress(message) ==
    LET pat == IF table_trace_found THEN table_row_pattern ELSE log_addr_pattern
        m == ReMatch(pat, message)
    IN  IF m.ok THEN <<HexVal(Group(pat, message, m, 1))>> ELSE <<>>

\* one line of the resolved-stack file
OutputLine(frame) ==
    LET line == ToHex(frame[1]) \o ": " \o frame[2]
    IN  IF frame[3] # None /\ frame[3][1] # ""
        THEN line \o Spaces(60 - Len(line)) \o " -> " \o frame[3][1]
        ELSE line

\* map_debug.py is not running
DebugOff ==
    /\ fs = {}
    /\ dpc = "off"
    /\ exception = ""
    /\ fails = <<>>
    /\ seen = FALSE
    /\ dst_lines = <<>>
    /\ seen_failed = FALSE
    /\ seen_start = FALSE
    /\ refs_set = {}
    /\ refs = <<>>
    /\ j = 1
    /\ snippets = <<>>
    /\ no_refs_reported = FALSE
    /\ scan_at = ScansAtStart

InitReader(maps, logs) ==
    /\ map_file \in maps
    /\ log_file \in logs
    /\ pc = "probe"
    /\ demangle = FALSE
    /\ map_symbols = <<>>
    /\ map_addrs = <<>>
    /\ i = 1
    /\ stack_trace_found = FALSE
    /\ table_trace_found = FALSE
    /\ trace_addrs = <<>>
    /\ demangle_raised = <<>>
    /\ stack_trace_symbols = <<>>
    /\ output_file = <<>>
    /\ DebugOff

\* lines 17-31: the probe leaves a working demangle or one that always raises
ProbeDemangler ==
    /\ pc = "probe"
    /\ demangle' \in BOOLEAN
    /\ pc' = "read_map"
    /\ UNCHANGED << debugVars, map_file, log_file, map_symbols, map_addrs, i,
                    stack_trace_found, table_trace_found, trace_addrs, demangle_raised,
                    stack_trace_symbols, output_file >>

\* lines 36-43: one line of the map file
ReadMapLine ==
    /\ pc = "read_map"
    /\ i <= Len(map_file)
    /\ map_symbols' = map_symbols \o MapEntry(map_file[i])
    /\ i' = i + 1
    /\ UNCHANGED << debugVars, map_file, log_file, pc, demangle, map_addrs,
                    stack_trace_found, table_trace_found, trace_addrs, demangle_raised,
                    stack_trace_symbols, output_file >>

\* lines 45-47: the table is sorted and its addresses are listed
SortMap ==
    /\ pc = "read_map"
    /\ i > Len(map_file)
    /\ map_symbols' = Sorted(map_symbols)
    /\ map_addrs' = [n \in 1..Len(map_symbols) |-> Sorted(map_symbols)[n][1]]
    /\ pc' = "scan"
    /\ i' = 1
    /\ UNCHANGED << debugVars, map_file, log_file, demangle, stack_trace_found,
                    table_trace_found, trace_addrs, demangle_raised, stack_trace_symbols,
                    output_file >>

\* a line that is no address is skipped and the scan goes on
ScanLine_no_break ==
    /\ pc = "scan"
    /\ i <= Len(log_file)
    /\ LET message == Message(log_file[i])
           parsed == ParseAddress(message)
           address == parsed[1]
           symbol_index == bisect_right(map_addrs, address) - 1
       IN  IF ~stack_trace_found /\ ~table_trace_found
           THEN /\ stack_trace_found' = IsOldTrigger(message)
                /\ table_trace_found' = (~IsOldTrigger(message) /\ IsTableTrigger(message))
                /\ i' = i + 1
                /\ UNCHANGED << pc, trace_addrs, demangle_raised, stack_trace_symbols >>
           ELSE IF parsed = <<>>
           THEN \* continue
                /\ i' = i + 1
                /\ UNCHANGED << pc, stack_trace_found, table_trace_found,
                                trace_addrs, demangle_raised, stack_trace_symbols >>
           ELSE /\ trace_addrs' = Append(trace_addrs, address)
                /\ IF symbol_index < 0
                   THEN /\ stack_trace_symbols' = InvalidBranch(address)
                        /\ demangle_raised' = Append(demangle_raised, FALSE)
                   ELSE \E outcome \in DemangleOutcomes(map_symbols[symbol_index + 1][2]) :
                            /\ stack_trace_symbols' =
                                   Append(stack_trace_symbols,
                                          << map_symbols[symbol_index + 1][1],
                                             map_symbols[symbol_index + 1][2],
                                             Demangled(outcome) >>)
                            /\ demangle_raised' =
                                   Append(demangle_raised, outcome[1] = "raise")
                /\ i' = i + 1
                /\ UNCHANGED << pc, stack_trace_found, table_trace_found >>
    /\ UNCHANGED << debugVars, map_file, log_file, demangle, map_symbols, map_addrs,
                    output_file >>

\* the triggers are looked for on every line, also inside a trace
ScanLine_retrigger ==
    /\ pc = "scan"
    /\ i <= Len(log_file)
    /\ LET message == Message(log_file[i])
           parsed == ParseAddress(message)
           address == parsed[1]
           symbol_index == bisect_right(map_addrs, address) - 1
       IN  IF (~stack_trace_found /\ ~table_trace_found)
                  \/ IsOldTrigger(message) \/ IsTableTrigger(message)
           THEN /\ stack_trace_found' = (stack_trace_found \/ IsOldTrigger(message))
                /\ table_trace_found' =
                       (table_trace_found \/ (~IsOldTrigger(message) /\ IsTableTrigger(message)))
                /\ i' = i + 1
                /\ UNCHANGED << pc, trace_addrs, demangle_raised, stack_trace_symbols >>
           ELSE IF parsed = <<>>
           THEN \* break
                /\ pc' = "write"
                /\ i' = 1
                /\ UNCHANGED << stack_trace_found, table_trace_found,
                                trace_addrs, demangle_raised, stack_trace_symbols >>
           ELSE /\ trace_addrs' = Append(trace_addrs, address)
                /\ IF symbol_index < 0
                   THEN /\ stack_trace_symbols' = InvalidBranch(address)
                        /\ demangle_raised' = Append(demangle_raised, FALSE)
                   ELSE \E outcome \in DemangleOutcomes(map_symbols[symbol_index + 1][2]) :
                            /\ stack_trace_symbols' =
                                   Append(stack_trace_symbols,
                                          << map_symbols[symbol_index + 1][1],
                                             map_symbols[symbol_index + 1][2],
                                             Demangled(outcome) >>)
                            /\ demangle_raised' =
                                   Append(demangle_raised, outcome[1] = "raise")
                /\ i' = i + 1
                /\ UNCHANGED << pc, stack_trace_found, table_trace_found >>
    /\ UNCHANGED << debugVars, map_file, log_file, demangle, map_symbols, map_addrs,
                    output_file >>

\* lines 56-103: one line of the log file
ScanLine ==
    /\ pc = "scan"
    /\ i <= Len(log_file)
    /\ LET message == Message(log_file[i])
           parsed == ParseAddress(message)
           address == parsed[1]
           symbol_index == bisect_right(map_addrs, address) - 1
       IN  IF ~stack_trace_found /\ ~table_trace_found
           THEN /\ stack_trace_found' = IsOldTrigger(message)
                /\ table_trace_found' = (~IsOldTrigger(message) /\ IsTableTrigger(message))
                /\ i' = i + 1
                /\ UNCHANGED << pc, trace_addrs, demangle_raised, stack_trace_symbols >>
           ELSE IF parsed = <<>>
           THEN \* break
                /\ pc' = "write"
                /\ i' = 1
                /\ UNCHANGED << stack_trace_found, table_trace_found,
                                trace_addrs, demangle_raised, stack_trace_symbols >>
           ELSE /\ trace_addrs' = Append(trace_addrs, address)
                /\ IF symbol_index < 0
                   THEN /\ stack_trace_symbols' = InvalidBranch(address)
                        /\ demangle_raised' = Append(demangle_raised, FALSE)
                   ELSE \E outcome \in DemangleOutcomes(map_symbols[symbol_index + 1][2]) :
                            /\ stack_trace_symbols' =
                                   Append(stack_trace_symbols,
                                          << map_symbols[symbol_index + 1][1],
                                             map_symbols[symbol_index + 1][2],
                                             Demangled(outcome) >>)
                            /\ demangle_raised' =
                                   Append(demangle_raised, outcome[1] = "raise")
                /\ i' = i + 1
                /\ UNCHANGED << pc, stack_trace_found, table_trace_found >>
    /\ UNCHANGED << debugVars, map_file, log_file, demangle, map_symbols, map_addrs,
                    output_file >>

\* line 98 with a demangler found by the probe: check_output (lines 21, 26)
\* waits for cwdemangle without a timeout; when the child process never
\* exits, the call never returns and the script stays in it
DemangleBlocks ==
    /\ pc = "scan"
    /\ i <= Len(log_file)
    /\ stack_trace_found \/ table_trace_found
    /\ demangle
    /\ LET parsed == ParseAddress(Message(log_file[i]))
       IN  /\ parsed # <<>>
           /\ bisect_right(map_addrs, parsed[1]) - 1 >= 0
    /\ pc' = "blocked"
    /\ UNCHANGED << debugVars, map_file, log_file, demangle, map_symbols, map_addrs, i,
                    stack_trace_found, table_trace_found, trace_addrs, demangle_raised,
                    stack_trace_symbols, output_file >>

\* the log is exhausted
ScanEnd ==
    /\ pc = "scan"
    /\ i > Len(log_file)
    /\ pc' = "write"
    /\ i' = 1
    /\ UNCHANGED << debugVars, map_file, log_file, demangle, map_symbols, map_addrs,
                    stack_trace_found, table_trace_found, trace_addrs, demangle_raised,
                    stack_trace_symbols, output_file >>

\* the frame is written to the file the log was read from
WriteLine_to_log ==
    /\ pc = "write"
    /\ i <= Len(stack_trace_symbols)
    /\ log_file' = Append(log_file, OutputLine(stack_trace_symbols[i]))
    /\ i' = i + 1
    /\ UNCHANGED << debugVars, map_file, output_file, pc, demangle, map_symbols,
                    map_addrs, stack_trace_found, table_trace_found, trace_addrs,
                    demangle_raised, stack_trace_symbols >>

\* lines 106-114: one frame written to the resolved-stack file
WriteLine ==
    /\ pc = "write"
    /\ i <= Len(stack_trace_symbols)
    /\ output_file' = Append(output_file, OutputLine(stack_trace_symbols[i]))
    /\ i' = i + 1
    /\ UNCHANGED << debugVars, map_file, log_file, pc, demangle, map_symbols, map_addrs,
                    stack_trace_found, table_trace_found, trace_addrs, demangle_raised,
                    stack_trace_symbols >>

WriteEnd ==
    /\ pc = "write"
    /\ i > Len(stack_trace_symbols)
    /\ pc' = "done"
    /\ UNCHANGED << debugVars, map_file, log_file, demangle, map_symbols, map_addrs, i,
                    stack_trace_found, table_trace_found, trace_addrs, demangle_raised,
                    stack_trace_symbols, output_file >>

\* line 35-36: open(map_path) or readlines() raises (no such file, no
\* permission, bytes that are no text); the script ends with an error
\* before it has read a line
MapUnreadable ==
    /\ pc = "read_map"
    /\ i = 1
    /\ pc' = "failed"
    /\ UNCHANGED << debugVars, map_file, log_file, demangle, map_symbols, map_addrs, i,
                    stack_trace_found, table_trace_found, trace_addrs, demangle_raised,
                    stack_trace_symbols, output_file >>

NextReader ==
    \/ ProbeDemangler
    \/ MapUnreadable
    \/ ReadMapLine
    \/ SortMap
    \/ ScanLine
    \/ DemangleBlocks
    \/ ScanEnd
    \/ WriteLine
    \/ WriteEnd

\* the resolver runs: any map, a log that is an old-format trace of addresses
InitResolve ==
    InitReader(SeqsUpTo(MapVocab, MaxMapLines),
               {<<OldTrigger>> \o a : a \in SeqsUpTo(AddrVocab, MaxAddrs)})

\* the old-format parser runs
Init == InitReader({ParserMap}, SeqsUpTo(OldVocab, MaxLogLines))

\* the table-format parser runs
InitTable == InitReader({ParserMap}, SeqsUpTo(TableVocab, MaxTableLines))

\* sparse maps: symbol lines (f at 0x10, k at 0x30, one indented, one with no
\* name before the end of the line), a heading, a symbol line behind other
\* text, a line whose first field is a digit short, an empty line
MapLineIndented == "  00000000 000010 00000010 00000000 1 f x.o\n"

MapLineNoName == "00000000 000010 00000040 00000000 1  \n"

MapLineBehind == "UNUSED 00000000 000010 00000010 00000000 1 f x.o\n"

MapLineShort == "0000000 000010 00000010 00000000 1 f x.o\n"

SparseVocab ==
    { MapLineIndented, MapLineK, MapLineNoName, MapLineJunk, MapLineBehind,
      MapLineShort, "\n" }

\* the log of the sparse-map runs: two addresses, 0x2a and 0xf
SparseLog == <<OldTrigger, "2a\n", "f\n">>

\* the sparse-map runs
InitSparse == InitReader(SeqsUpTo(SparseVocab, MaxMapLines), {SparseLog})

\* maps that define 0x20 more than once (as g and as h), with f at 0x10
DupVocab == {MapLineG, MapLineH, MapLineF}

\* the log of the duplicate-address runs: 0x2a, above 0x20, and 0x20 itself
DupLog == <<OldTrigger, "2a\n", "20\n">>

\* the duplicate-address runs
InitDup == InitReader(SeqsUpTo(DupVocab, MaxMapLines), {DupLog})

\* a hex-leading log holds, after its trigger line, at most MaxHexLines lines
MaxHexLines == 3

\* lines of an old-format trace: text that begins with a letter from a to f
\* (the table header, 0xADD; a failure message, 0xFA), an address behind
\* white space and before other text, and three lines that begin with no
\* hexadecimal digit, one of them blank
HexLeadVocab ==
    { TableTrigger, "FAIL-MSG: boom\n", "  2a rest\n", "--\n", "g1\n", "\n" }

\* the hex-leading runs: the old trigger, then lines of HexLeadVocab
InitHexLead ==
    InitReader({ParserMap},
               {<<OldTrigger>> \o q : q \in SeqsUpTo(HexLeadVocab, MaxHexLines)})

\* a state-machine log holds at most MaxScanLines lines
MaxScanLines == 4

\* state-machine logs: both triggers, a line that is an address (0x5) in the
\* old format and a row (LR save 0x2a) in the table format, a line that is
\* neither
ScanVocab == {OldTrigger, TableTrigger, "5: 10 2a\n", "--\n"}

\* the state-machine runs
InitScan == InitReader({ParserMap}, SeqsUpTo(ScanVocab, MaxScanLines))

Spec == Init /\ [][NextReader]_vars

SpecResolve == InitResolve /\ [][NextReader]_vars

SpecSparse == InitSparse /\ [][NextReader]_vars

SpecScan == InitScan /\ [][NextReader]_vars

SpecDup == InitDup /\ [][NextReader]_vars

SpecHexLead == InitHexLead /\ [][NextReader]_vars

SpecTable == InitTable /\ [][NextReader]_vars
(***************************************************************************)
(* map_debug.py: inputs                                                    *)
(***************************************************************************)
\* a reference-scan log holds at most MaxRefLines lines
MaxRefLines == 5

\* a pipeline log holds, after its two sentinels, at most MaxRefs reference lines
MaxRefs == 3

\* a data-stack-trace log holds at most MaxBlockLines lines
MaxBlockLines == 3

\* --dta-root
dta_root == "r"

AppFailed == "APP FAILED\n"

StartTrace == Hdr \o "start stack trace\n"

RefLine(path, line) == "(file " \o path \o ", line " \o line \o ")\n"

\* two references on one line
TwoRefLine == "(file d/b.dta, line 7) (file a.dta, line 5)\n"

\* reference-scan logs: the sentinels, a reference, a line of two references
RefVocab == {AppFailed, StartTrace, RefLine("a.dta", "5"), TwoRefLine}

\* pipeline logs: references into one directory, two of them to the same file
DirVocab == {RefLine("d/a.dta", "5"), RefLine("d/b.dta", "7"), RefLine("d/a.dta", "9")}

\* data-stack-trace logs: the marker, block lines with and without header, a blank line
BlockVocab == {"Data Stack Trace\n", "x.dta(12)\n", Hdr \o "at y.dta(3)\n", "\n"}

(***************************************************************************)
(* map_debug.py: functions                                                 *)
(***************************************************************************)
\* the printable ASCII characters (but the grave accent) and the white space,
\* in code-point order
AsciiOrder ==
    "\t\n\f\r !\"#$%&'()*+,-./0123456789:;<=>?@ABCDEFGHIJKLMNOPQRSTUVWXYZ[\\]^_abcdefghijklmnopqrstuvwxyz{|}~"

Ord(c) == Find(AsciiOrder, c)

RECURSIVE StrLess(_, _)
\* a < b of two Python strings
StrLess(a, b) ==
    IF b = "" THEN FALSE
    ELSE IF a = "" THEN TRUE
    ELSE IF Ch(a, 1) = Ch(b, 1) THEN StrLess(Tail(a), Tail(b))
    ELSE Ord(Ch(a, 1)) < Ord(Ch(b, 1))

\* the tuples compared by line first
RefLess_line_first(a, b) == a[2] < b[2] \/ (a[2] = b[2] /\ StrLess(a[1], b[1]))

\* a < b of two (path, line) tuples
RefLess(a, b) == StrLess(a[1], b[1]) \/ (a[1] = b[1] /\ a[2] < b[2])

RECURSIVE SortedRefs(_)
\* sorted(refs) of a set of (path, line) tuples
SortedRefs(S) ==
    IF S = {} THEN <<>>
    ELSE LET least == CHOOSE r \in S : \A q \in S \ {r} : RefLess(r, q)
         IN  <<least>> \o SortedRefs(S \ {least})

RECURSIVE extract_fail_messages_dedup(_)
\* a message already collected is not collected again
extract_fail_messages_dedup(log) ==
    IF Len(log) = 0 THEN <<>>
    ELSE LET m == ReSearch(fail_pattern, Head(log))
             msg == Strip(Group(fail_pattern, Head(log), m, 1))
             rest == extract_fail_messages_dedup(Tail(log))
         IN  IF m.ok /\ \A n \in 1..Len(rest) : rest[n] # msg THEN <<msg>> \o rest
             ELSE rest

RECURSIVE extract_fail_messages(_)
\* lines 53-60: the stripped text after every FAIL-MSG:
extract_fail_messages(log) ==
    IF Len(log) = 0 THEN <<>>
    ELSE LET m == ReSearch(fail_pattern, Head(log))
         IN  (IF m.ok THEN <<Strip(Group(fail_pattern, Head(log), m, 1))>> ELSE <<>>)
                 \o extract_fail_messages(Tail(log))

\* the prefix is kept: the whole line without the white space at its end
Content_whole(line) == RStrip(line)

\* lines 82-83: the line behind its first N[OSREPORT]: tag, or the whole
\* line, without the white space at its end
Content(line) ==
    LET k == Find(line, "N[OSREPORT]:")
    IN  IF k > 0 THEN RStrip(SubSeq(line, k + Len("N[OSREPORT]:"), Len(line)))
        ELSE RStrip(line)

\* lines 117-119: the reference of a line, <<>> when it has none
LineRef(line) ==
    LET m == ReSearch(pattern, line)
    IN  IF m.ok THEN << << Group(pattern, line, m, 1), DecVal(Group(pattern, line, m, 2)) >> >>
        ELSE <<>>

\* lines 124-126: the path of a reference, under the dta root unless absolute
ResolvePath(relpath) ==
    IF StartsWith(relpath, "/") THEN relpath ELSE dta_root \o "/" \o relpath

\* the existence test dropped
Exists_always(p) == TRUE

\* line 127: p.exists()
Exists(p) == p \in fs

\* what a fallback to some other source of references would need: the
\* branch to the snippet stage is taken whatever the scan found
HasRefs_always(found) == TRUE

\* line 171: if refs
HasRefs(found) == found # <<>>

(***************************************************************************)
(* map_debug.py: main                                                      *)
(***************************************************************************)
ReaderOff ==
    /\ map_file = <<>>
    /\ pc = "off"
    /\ demangle = FALSE
    /\ map_symbols = <<>>
    /\ map_addrs = <<>>
    /\ i = 1
    /\ stack_trace_found = FALSE
    /\ table_trace_found = FALSE
    /\ trace_addrs = <<>>
    /\ demangle_raised = <<>>
    /\ stack_trace_symbols = <<>>
    /\ output_file = <<>>

\* inputs: <<log, fs>> pairs
InitDebug(inputs) ==
    /\ \E in \in inputs : log_file = in[1] /\ fs = in[2]
    /\ dpc = "stack_reader"
    /\ exception = ""
    /\ fails = <<>>
    /\ seen = FALSE
    /\ dst_lines = <<>>
    /\ seen_failed = FALSE
    /\ seen_start = FALSE
    /\ refs_set = {}
    /\ refs = <<>>
    /\ j = 1
    /\ snippets = <<>>
    /\ no_refs_reported = FALSE
    /\ scan_at = ScansAtStart
    /\ ReaderOff

\* check=True left out: the reader's exit status is not looked at
RunStackReader_unchecked ==
    /\ dpc = "stack_reader"
    /\ pc \in {"off", "done", "failed"}
    /\ dpc' = "pretty_print"
    /\ UNCHANGED << log_file, readerVars, scan_at, fs, exception, fails, seen, dst_lines,
                    seen_failed, seen_start, refs_set, refs, j, snippets,
                    no_refs_reported >>

\* lines 16-21, 151: the reader runs as a child process and main waits for
\* its end; check=True raises when it exits with an error. Where the reader
\* is not modelled step by step (pc = "off") it ends either way.
RunStackReader ==
    /\ dpc = "stack_reader"
    /\ \E ok \in BOOLEAN :
          IF ok
          THEN pc \in {"off", "done"} /\ dpc' = "pretty_print" /\ UNCHANGED exception
          ELSE pc \in {"off", "failed"} /\ dpc' = "crashed" /\ exception' = "CalledProcessError"
    /\ UNCHANGED << log_file, readerVars, scan_at, fs, fails, seen, dst_lines, seen_failed,
                    seen_start, refs_set, refs, j, snippets, no_refs_reported >>

\* lines 154-155: the resolved stack is printed
PrettyPrintResolved ==
    /\ dpc = "pretty_print"
    /\ dpc' = "fail_messages"
    /\ UNCHANGED << log_file, readerVars, scan_at, fs, exception, fails, seen, dst_lines,
                    seen_failed, seen_start, refs_set, refs, j, snippets,
                    no_refs_reported >>

\* lines 158-164: the FAIL-MSGs are collected and printed
ExtractFailMessages ==
    /\ dpc = "fail_messages"
    /\ fails' = extract_fail_messages(log_file)
    /\ dpc' = "data_stack_trace"
    /\ j' = 1
    /\ UNCHANGED << log_file, readerVars, scan_at, fs, exception, seen, dst_lines,
                    seen_failed, seen_start, refs_set, refs, snippets,
                    no_refs_reported >>

\* lines 72-94: one line of show_data_stack_trace
DataStackTraceLine ==
    /\ dpc = "data_stack_trace"
    /\ j <= Len(log_file)
    /\ LET line == log_file[j]
           content == Content(line)
       IN  IF ~seen
           THEN /\ seen' = Contains(line, "Data Stack Trace")
                /\ j' = j + 1
                /\ UNCHANGED << dpc, dst_lines >>
           ELSE IF Strip(line) = "" \/ ~ReSearch(path_pattern, content).ok
           THEN \* break
                /\ dpc' = "references"
                /\ j' = 1
                /\ UNCHANGED << seen, dst_lines >>
           ELSE /\ dst_lines' = Append(dst_lines, content)
                /\ j' = j + 1
                /\ UNCHANGED << dpc, seen >>
    /\ UNCHANGED << log_file, readerVars, scan_at, fs, exception, fails, seen_failed,
                    seen_start, refs_set, refs, snippets, no_refs_reported >>

\* the log is exhausted
DataStackTraceEnd ==
    /\ dpc = "data_stack_trace"
    /\ j > Len(log_file)
    /\ dpc' = "references"
    /\ j' = 1
    /\ UNCHANGED << log_file, readerVars, scan_at, fs, exception, fails, seen, dst_lines,
                    seen_failed, seen_start, refs_set, refs, snippets,
                    no_refs_reported >>

\* no continue behind the gates: the line that passes a gate is tested further
ReferencesLine_fallthrough ==
    /\ dpc = "references"
    /\ j <= Len(log_file)
    /\ LET line == log_file[j]
           failed == seen_failed \/ Contains(line, "APP FAILED")
           start == seen_start \/ (failed /\ Contains(line, "start stack trace"))
       IN  /\ seen_failed' = failed
           /\ seen_start' = start
           /\ refs_set' = IF start
                          THEN refs_set \cup {LineRef(line)[n] : n \in 1..Len(LineRef(line))}
                          ELSE refs_set
    /\ j' = j + 1
    /\ UNCHANGED << log_file, readerVars, scan_at, fs, dpc, exception, fails, seen,
                    dst_lines, refs, snippets, no_refs_reported >>

\* the sentinels in either order: each is looked for until both are seen
ReferencesLine_unordered ==
    /\ dpc = "references"
    /\ j <= Len(log_file)
    /\ LET line == log_file[j]
       IN  IF ~(seen_failed /\ seen_start)
           THEN /\ seen_failed' = (seen_failed \/ Contains(line, "APP FAILED"))
                /\ seen_start' = (seen_start \/ Contains(line, "start stack trace"))
                /\ UNCHANGED refs_set
           ELSE /\ refs_set' = refs_set \cup {LineRef(line)[n] : n \in 1..Len(LineRef(line))}
                /\ UNCHANGED << seen_failed, seen_start >>
    /\ j' = j + 1
    /\ UNCHANGED << log_file, readerVars, scan_at, fs, dpc, exception, fails, seen,
                    dst_lines, refs, snippets, no_refs_reported >>

\* the second gate dropped: references are collected right after APP FAILED
ReferencesLine_one_gate ==
    /\ dpc = "references"
    /\ j <= Len(log_file)
    /\ LET line == log_file[j]
       IN  IF ~seen_failed
           THEN /\ seen_failed' = Contains(line, "APP FAILED")
                /\ UNCHANGED << seen_start, refs_set >>
           ELSE /\ refs_set' = refs_set \cup {LineRef(line)[n] : n \in 1..Len(LineRef(line))}
                /\ UNCHANGED << seen_failed, seen_start >>
    /\ j' = j + 1
    /\ UNCHANGED << log_file, readerVars, scan_at, fs, dpc, exception, fails, seen,
                    dst_lines, refs, snippets, no_refs_reported >>

\* lines 108-119: one line of find_dta_references
ReferencesLine ==
    /\ dpc = "references"
    /\ j <= Len(log_file)
    /\ LET line == log_file[j]
       IN  IF ~seen_failed
           THEN /\ seen_failed' = Contains(line, "APP FAILED")
                /\ UNCHANGED << seen_start, refs_set >>
           ELSE IF ~seen_start
           THEN /\ seen_start' = Contains(line, "start stack trace")
                /\ UNCHANGED << seen_failed, refs_set >>
           ELSE /\ refs_set' = refs_set \cup {LineRef(line)[n] : n \in 1..Len(LineRef(line))}
                /\ UNCHANGED << seen_failed, seen_start >>
    /\ j' = j + 1
    /\ UNCHANGED << log_file, readerVars, scan_at, fs, dpc, exception, fails, seen,
                    dst_lines, refs, snippets, no_refs_reported >>

\* line 120, 170: return sorted(refs)
ReferencesEnd ==
    /\ dpc = "references"
    /\ j > Len(log_file)
    /\ refs' = SortedRefs(refs_set)
    /\ dpc' = "branch"
    /\ UNCHANGED << log_file, readerVars, scan_at, fs, exception, fails, seen, dst_lines,
                    seen_failed, seen_start, refs_set, j, snippets,
                    no_refs_reported >>

\* lines 171-174: snippets for the references, or the note that there are none
MainBranch ==
    /\ dpc = "branch"
    /\ IF HasRefs(refs)
       THEN /\ dpc' = "run_dta_debug"
            /\ j' = 1
            /\ UNCHANGED no_refs_reported
       ELSE /\ no_refs_reported' = TRUE
            /\ dpc' = "done"
            /\ UNCHANGED j
    /\ UNCHANGED << log_file, readerVars, scan_at, fs, exception, fails, seen, dst_lines,
                    seen_failed, seen_start, refs_set, refs, snippets >>

\* lines 123-134: one reference of run_dta_debug. The warning of a missing
\* file names sys.stderr; map_debug.py does not import sys, so evaluating the
\* print's arguments raises NameError. check_call raises when the snippet
\* tool exits with an error.
RunDtaDebugStep ==
    /\ dpc = "run_dta_debug"
    /\ j <= Len(refs)
    /\ LET relpath == refs[j][1]
           lineno == refs[j][2]
           p == ResolvePath(relpath)
       IN  IF ~Exists(p)
           THEN /\ dpc' = "crashed"
                /\ exception' = "NameError"
                /\ UNCHANGED << j, snippets >>
           ELSE /\ snippets' = Append(snippets, <<p, lineno>>)
                /\ \E ok \in BOOLEAN :
                      IF ok THEN j' = j + 1 /\ UNCHANGED << dpc, exception >>
                      ELSE /\ dpc' = "crashed"
                           /\ exception' = "CalledProcessError"
                           /\ UNCHANGED j
    /\ UNCHANGED << log_file, readerVars, scan_at, fs, fails, seen, dst_lines, seen_failed,
                    seen_start, refs_set, refs, no_refs_reported >>

\* every reference has been handled
RunDtaDebugEnd ==
    /\ dpc = "run_dta_debug"
    /\ j > Len(refs)
    /\ dpc' = "done"
    /\ UNCHANGED << log_file, readerVars, scan_at, fs, exception, fails, seen, dst_lines,
                    seen_failed, seen_start, refs_set, refs, j, snippets,
                    no_refs_reported >>

NextDebug ==
    \/ RunStackReader
    \/ PrettyPrintResolved
    \/ ExtractFailMessages
    \/ DataStackTraceLine
    \/ DataStackTraceEnd
    \/ ReferencesLine
    \/ ReferencesEnd
    \/ MainBranch
    \/ RunDtaDebugStep
    \/ RunDtaDebugEnd

\* the reference-scan runs: any log over the sentinels and reference lines;
\* every referenced file exists, or none does
InitRefs ==
    InitDebug(SeqsUpTo(RefVocab, MaxRefLines)
                  \X {{}, {ResolvePath("a.dta"), ResolvePath("d/b.dta")}})

\* the pipeline runs: both sentinels and then references into one directory,
\* any of whose files may exist; or a log with a data-stack-trace block
InitPipeline ==
    InitDebug(({<<AppFailed, StartTrace>> \o r : r \in SeqsUpTo(DirVocab, MaxRefs)}
                   \X SUBSET {ResolvePath("d/a.dta"), ResolvePath("d/b.dta")})
              \cup (SeqsUpTo(BlockVocab, MaxBlockLines)
                   \X {{ResolvePath("x.dta"), ResolvePath("y.dta")}}))

SpecRefs == InitRefs /\ [][NextDebug]_vars

SpecPipeline == InitPipeline /\ [][NextDebug]_vars

(***************************************************************************)
(* map_debug.py: the failure-message runs                                  *)
(***************************************************************************)
\* a failure-message log holds at most MaxFailLines lines beside its sentinels
MaxFailLines == 3

\* FAIL-MSG lines: two with the message "boom" (one under a header, without
\* the blank after the marker, with blanks at its end), one with no message;
\* a marker of another scan; a line whose marker is in lower case
FailVocab ==
    { "FAIL-MSG: boom\n", Hdr \o "FAIL-MSG:boom  \n", "FAIL-MSG:\n",
      "Data Stack Trace\n", "fail-msg: x\n" }

\* both sentinels and a reference
GateLines == <<AppFailed, StartTrace, RefLine("a.dta", "5")>>

\* the lines of FailVocab alone, before the sentinels, or after them
InitFail ==
    InitDebug((UNION {{q, q \o GateLines, GateLines \o q} :
                          q \in SeqsUpTo(FailVocab, MaxFailLines)})
                  \X {{}, {ResolvePath("a.dta")}})

SpecFail == InitFail /\ [][NextDebug]_vars

(***************************************************************************)
(* map_debug.py with its reader: the whole run                             *)
(***************************************************************************)
\* a log with every section: an old-format trace of one address, a
\* FAIL-MSG, a data-stack-trace block of one line, both sentinels and a
\* reference
FullLog ==
    << OldTrigger, "2a\n", "FAIL-MSG: boom\n", "Data Stack Trace\n", "x.dta(12)\n",
       AppFailed, StartTrace, RefLine("d/b.dta", "7") >>

RECURSIVE SubSeqsOf(_)
\* q with any of its lines left out
SubSeqsOf(q) ==
    IF Len(q) = 0 THEN {<<>>}
    ELSE LET rest == SubSeqsOf(Tail(q))
         IN  rest \cup {<<Head(q)>> \o r : r \in rest}

\* main starts the reader on the map and the log; the referenced file exists
\* or not
InitMain ==
    /\ map_file = ParserMap
    /\ log_file \in SubSeqsOf(FullLog)
    /\ fs \in {{}, {ResolvePath("d/b.dta")}}
    /\ pc = "probe"
    /\ demangle = FALSE
    /\ map_symbols = <<>>
    /\ map_addrs = <<>>
    /\ i = 1
    /\ stack_trace_found = FALSE
    /\ table_trace_found = FALSE
    /\ trace_addrs = <<>>
    /\ demangle_raised = <<>>
    /\ stack_trace_symbols = <<>>
    /\ output_file = <<>>
    /\ dpc = "stack_reader"
    /\ exception = ""
    /\ fails = <<>>
    /\ seen = FALSE
    /\ dst_lines = <<>>
    /\ seen_failed = FALSE
    /\ seen_start = FALSE
    /\ refs_set = {}
    /\ refs = <<>>
    /\ j = 1
    /\ snippets = <<>>
    /\ no_refs_reported = FALSE
    /\ scan_at = ScansAtStart

NextMain == NextReader \/ NextDebug

SpecMain == InitMain /\ [][NextMain]_vars

(***************************************************************************)
(* map_debug.py: the sorting runs                                          *)
(***************************************************************************)
\* a sorting log holds, after its two sentinels, at most MaxSortLines lines
MaxSortLines == 3

\* references whose order by (path, line) differs from their order as text
\* and by line: Z.dta:12 < a.dta:9 < a.dta:10
SortVocab == {RefLine("a.dta", "10"), RefLine("Z.dta", "12"), RefLine("a.dta", "9")}

\* both sentinels, then the references in any order and number; the files
\* exist or not
InitSort ==
    InitDebug({<<AppFailed, StartTrace>> \o q : q \in SeqsUpTo(SortVocab, MaxSortLines)}
                  \X {{}, {ResolvePath("a.dta"), ResolvePath("Z.dta")}})

SpecSort == InitSort /\ [][NextDebug]_vars

(***************************************************************************)
(* map_debug.py: the data-stack-trace runs                                 *)
(***************************************************************************)
\* a data-stack-trace scan log holds at most MaxDstLines lines
MaxDstLines == 4

\* the marker, block lines without and with header, a blank line, a line
\* that is neither blank nor a block line
DstVocab ==
    {"Data Stack Trace\n", "x.dta(12)\n", Hdr \o "at y.dta(3)\n", "\n", "end\n"}

\* the lines of DstVocab alone, or one of them before the sentinels and a
\* reference whose file exists or not
InitDst ==
    InitDebug((SeqsUpTo(DstVocab, MaxDstLines) \X {{}})
              \cup ({q \o GateLines : q \in SeqsUpTo(DstVocab, 1)}
                       \X {{}, {ResolvePath("a.dta")}}))

SpecDst == InitDst /\ [][NextDebug]_vars

(***************************************************************************)
(* map_debug.py: the three scans of the log, run side by side              *)
(***************************************************************************)
\* every scan reads the log through one shared file object: a line read by
\* one scan is not read again by another
NextLine_shared(s) ==
    CHOOSE n \in {scan_at[t] : t \in Scans} : \A t \in Scans : scan_at[t] <= n

\* lines 55-56, 71-72, 107-108: each function opens the log for itself and
\* reads it line by line; the line the scan s reads next
NextLine(s) == scan_at[s]

\* lines 56-59: one line of extract_fail_messages
FailScanLine ==
    /\ dpc = "scans"
    /\ NextLine("extract_fail_messages") <= Len(log_file)
    /\ fails' = fails \o extract_fail_messages(<<log_file[NextLine("extract_fail_messages")]>>)
    /\ scan_at' = [scan_at EXCEPT !["extract_fail_messages"] =
                                      NextLine("extract_fail_messages") + 1]
    /\ UNCHANGED << log_file, readerVars, fs, dpc, exception, seen, dst_lines,
                    seen_failed, seen_start, refs_set, refs, j, snippets,
                    no_refs_reported >>

\* lines 72-94: one line of show_data_stack_trace; a break ends the scan
BlockScanLine ==
    /\ dpc = "scans"
    /\ NextLine("show_data_stack_trace") <= Len(log_file)
    /\ LET line == log_file[NextLine("show_data_stack_trace")]
           content == Content(line)
       IN  IF ~seen
           THEN /\ seen' = Contains(line, "Data Stack Trace")
                /\ scan_at' = [scan_at EXCEPT !["show_data_stack_trace"] =
                                                  NextLine("show_data_stack_trace") + 1]
                /\ UNCHANGED dst_lines
           ELSE IF Strip(line) = "" \/ ~ReSearch(path_pattern, content).ok
           THEN \* break
                /\ scan_at' = [scan_at EXCEPT !["show_data_stack_trace"] = Len(log_file) + 1]
                /\ UNCHANGED << seen, dst_lines >>
           ELSE /\ dst_lines' = Append(dst_lines, content)
                /\ scan_at' = [scan_at EXCEPT !["show_data_stack_trace"] =
                                                  NextLine("show_data_stack_trace") + 1]
                /\ UNCHANGED seen
    /\ UNCHANGED << log_file, readerVars, fs, dpc, exception, fails, seen_failed,
                    seen_start, refs_set, refs, j, snippets, no_refs_reported >>

\* lines 108-119: one line of find_dta_references
RefScanLine ==
    /\ dpc = "scans"
    /\ NextLine("find_dta_references") <= Len(log_file)
    /\ LET line == log_file[NextLine("find_dta_references")]
       IN  IF ~seen_failed
           THEN /\ seen_failed' = Contains(line, "APP FAILED")
                /\ UNCHANGED << seen_start, refs_set >>
           ELSE IF ~seen_start
           THEN /\ seen_start' = Contains(line, "start stack trace")
                /\ UNCHANGED << seen_failed, refs_set >>
           ELSE /\ refs_set' = refs_set \cup {LineRef(line)[n] : n \in 1..Len(LineRef(line))}
                /\ UNCHANGED << seen_failed, seen_start >>
    /\ scan_at' = [scan_at EXCEPT !["find_dta_references"] =
                                      NextLine("find_dta_references") + 1]
    /\ UNCHANGED << log_file, readerVars, fs, dpc, exception, fails, seen,
                    dst_lines, refs, j, snippets, no_refs_reported >>

\* the scans take their steps in any order
NextScans ==
    \/ FailScanLine
    \/ BlockScanLine
    \/ RefScanLine

\* a log with a line for every scan, and a FAIL-MSG line that is a block
\* line as well
ScansLog ==
    << "FAIL-MSG: boom\n", "Data Stack Trace\n", "x.dta(12)\n", "FAIL-MSG: at y.dta(3)\n",
       AppFailed, StartTrace, RefLine("d/b.dta", "7") >>

\* the three scans are started on ScansLog with any of its lines left out
InitScans ==
    /\ log_file \in SubSeqsOf(ScansLog)
    /\ fs = {}
    /\ dpc = "scans"
    /\ exception = ""
    /\ fails = <<>>
    /\ seen = FALSE
    /\ dst_lines = <<>>
    /\ seen_failed = FALSE
    /\ seen_start = FALSE
    /\ refs_set = {}
    /\ refs = <<>>
    /\ j = 1
    /\ snippets = <<>>
    /\ no_refs_reported = FALSE
    /\ scan_at = ScansAtStart
    /\ ReaderOff

SpecScans == InitScans /\ [][NextScans]_vars

(***************************************************************************)
(* map_debug.py: the sentinel-line runs                                    *)
(***************************************************************************)
\* one line with both sentinels
BothSentinels == "APP FAILED at start stack trace\n"

\* the second sentinel and a reference on one line
StartWithRef == Hdr \o "start stack trace (file a.dta, line 5)\n"

\* sentinel-line logs: the two lines above, APP FAILED alone, a reference
SentinelVocab == {BothSentinels, StartWithRef, AppFailed, RefLine("d/b.dta", "7")}

\* any log over the sentinel lines; every referenced file exists, or none does
InitSentinel ==
    InitDebug(SeqsUpTo(SentinelVocab, MaxRefLines)
                  \X {{}, {ResolvePath("a.dta"), ResolvePath("d/b.dta")}})

SpecSentinel == InitSentinel /\ [][NextDebug]_vars

(***************************************************************************)
(* Properties of stack_trace_read.py                                       *)
(***************************************************************************)
\* the entries <<address, symbol>> of the symbol table
TableEntries == {map_symbols[n] : n \in 1..Len(map_symbols)}

TableAddrs == {e[1] : e \in TableEntries}

\* brute-force floor: the greatest table address <= A
HasFloor(A) == \E a \in TableAddrs : a <= A

Floor(A) == CHOOSE a \in TableAddrs : a <= A /\ \A b \in TableAddrs : b <= A => b <= a

\* frame is what address A must resolve to
ResolvesTo(frame, A) ==
    IF HasFloor(A)
    THEN frame[1] = Floor(A) /\ <<frame[1], frame[2]>> \in TableEntries
    ELSE frame = <<A, "<invalid>", None>>

\* the frames recorded so far, one per looked-up address
Lookups == 1..Len(trace_addrs)

\* C1: floor search. Every frame produced for a stack address A at or above
\* some table entry carries the greatest table address <= A (as found by a
\* linear scan of the map's entries) and a name the map gives that address.
C1_FloorSearch ==
    /\ Len(stack_trace_symbols) = Len(trace_addrs)
    /\ \A n \in Lookups :
          HasFloor(trace_addrs[n]) =>
              /\ stack_trace_symbols[n][1] = Floor(trace_addrs[n])
              /\ stack_trace_symbols[n][1] <= trace_addrs[n]
              /\ <<stack_trace_symbols[n][1], stack_trace_symbols[n][2]>> \in TableEntries

\* 0x2a was resolved to 0x20 in a table that also holds 0x10 and 0x30,
\* read from a map that lists them out of order
C1_Witness ==
    /\ Len(trace_addrs) = 1
    /\ Len(stack_trace_symbols) = 1
    /\ trace_addrs[1] = 42
    /\ stack_trace_symbols[1][1] = 32
    /\ TableAddrs = {16, 32, 48}
    /\ map_file[1] = MapLineK

\* C2: an address below every table entry (any address when the table is
\* empty) yields the invalid sentinel frame: the address itself, the name
\* "<invalid>", no demangled name; the frame is recorded and the run goes on.
C2_InvalidSentinel ==
    /\ Len(stack_trace_symbols) = Len(trace_addrs)
    /\ \A n \in Lookups :
          ~HasFloor(trace_addrs[n]) =>
              stack_trace_symbols[n] = <<trace_addrs[n], "<invalid>", None>>
    /\ (pc = "done" /\ Len(log_file) > 0 /\ IsOldTrigger(Message(log_file[1])))
          => Len(trace_addrs) = Len(log_file) - 1

\* both cases: 0xf below a non-empty table, and an address in an empty table
C2_Witness ==
    /\ pc = "done"
    /\ Len(stack_trace_symbols) = 1
    /\ stack_trace_symbols[1][2] = "<invalid>"
    /\ Len(output_file) = 1
    /\ \/ TableAddrs = {16, 32} /\ trace_addrs[1] = 15
       \/ TableAddrs = {} /\ trace_addrs[1] = 42 /\ Len(map_file) > 0

\* C3: boundary of the floor search. Resolving an address that is a table
\* entry's own start address gives a frame with exactly that address.
C3_ExactStart ==
    \A n \in Lookups :
        (n <= Len(stack_trace_symbols) /\ trace_addrs[n] \in TableAddrs) =>
            stack_trace_symbols[n][1] = trace_addrs[n]

\* 0x20, defined twice and lying between 0x10 and 0x30, resolved to 0x20
C3_Witness ==
    /\ Len(stack_trace_symbols) = 1
    /\ trace_addrs[1] = 32
    /\ stack_trace_symbols[1][1] = 32
    /\ TableAddrs = {16, 32}
    /\ Len(map_symbols) = 3

\* the index of the first line whose message is the old-format trigger, 0 if none
RECURSIVE FirstOldTrigger(_, _)
FirstOldTrigger(log, n) ==
    IF n > Len(log) THEN 0
    ELSE IF IsOldTrigger(Message(log[n])) THEN n
    ELSE FirstOldTrigger(log, n + 1)

RECURSIVE LeadHex(_)
\* the longest prefix of s made of hexadecimal digits
LeadHex(s) ==
    IF Len(s) > 0 /\ Ch(s, 1) \in HexDigits THEN Ch(s, 1) \o LeadHex(Tail(s)) ELSE ""

\* the line's message starts, after white space, with a hexadecimal digit
IsAddrLine(line) == LeadHex(LStrip(Message(line))) # ""

AddrOf(line) == HexVal(LeadHex(LStrip(Message(line))))

\* the line's message is one hexadecimal token and nothing else
IsHexTokenLine(line) ==
    LET t == Strip(Message(line))
    IN  t # "" /\ LeadHex(t) = t

RECURSIVE RunOf(_, _)
\* the addresses of the longest run of address lines that starts at line n
RunOf(log, n) ==
    IF n <= Len(log) /\ IsAddrLine(log[n])
    THEN <<AddrOf(log[n])>> \o RunOf(log, n + 1)
    ELSE <<>>

\* the addresses of the old-format stack trace of the log
TraceOf(log) ==
    IF FirstOldTrigger(log, 1) = 0 THEN <<>> ELSE RunOf(log, FirstOldTrigger(log, 1) + 1)

\* C4: one frame per address of the stack trace, in log order, also after an
\* address that resolved to the invalid sentinel; the resolved-stack file
\* holds one line per frame, in the same order.
C4_FramePerAddress ==
    pc = "done" =>
        LET trace == TraceOf(log_file)
        IN  /\ Len(stack_trace_symbols) = Len(trace)
            /\ \A n \in 1..Len(stack_trace_symbols) :
                  ResolvesTo(stack_trace_symbols[n], trace[n])
            /\ Len(output_file) = Len(stack_trace_symbols)
            /\ \A n \in 1..Len(output_file) :
                  StartsWith(output_file[n],
                             ToHex(stack_trace_symbols[n][1]) \o ": " \o stack_trace_symbols[n][2])

\* an invalid address first, two valid ones after it, three lines written
C4_Witness ==
    /\ pc = "done"
    /\ Len(stack_trace_symbols) = 3
    /\ stack_trace_symbols[1][2] = "<invalid>"
    /\ stack_trace_symbols[2][2] = "g"
    /\ stack_trace_symbols[3][2] = "f"
    /\ output_file[1] = "f: <invalid>"
    /\ Len(output_file) = 3

\* the number of leading lines of q that hold one hexadecimal token
RECURSIVE HexTokenPrefix(_)
HexTokenPrefix(q) ==
    IF Len(q) > 0 /\ IsHexTokenLine(q[1]) THEN 1 + HexTokenPrefix(Tail(q)) ELSE 0

\* the log is the trigger line, N hex-token lines, a non-hex line, anything
IsOldFormatLog(log, N) ==
    /\ Len(log) >= N + 2
    /\ IsOldTrigger(Message(log[1]))
    /\ HexTokenPrefix(Tail(log)) = N
    /\ ~IsAddrLine(log[N + 2])

RECURSIVE Words(_)
\* s.split(): the maximal runs of non-space characters
Words(s) ==
    LET t == LStrip(s)
        RECURSIVE WordLen(_)
        WordLen(n) == IF n < Len(t) /\ Ch(t, n + 1) \notin Space THEN WordLen(n + 1) ELSE n
    IN  IF t = "" THEN <<>>
        ELSE <<SubSeq(t, 1, WordLen(0))>> \o Words(SubSeq(t, WordLen(0) + 1, Len(t)))

Strip0x(w) == IF StartsWith(w, "0x") THEN SubSeq(w, 3, Len(w)) ELSE w

IsHexToken(w) == Strip0x(w) # "" /\ LeadHex(Strip0x(w)) = Strip0x(w)

\* frame pointer ":", back-chain pointer, LR-save value
IsTableRow(message) ==
    LET w == Words(message)
    IN  /\ Len(w) = 3
        /\ Len(w[1]) > 1 /\ Ch(w[1], Len(w[1])) = ":"
        /\ IsHexToken(SubSeq(w[1], 1, Len(w[1]) - 1))
        /\ IsHexToken(w[2])
        /\ IsHexToken(w[3])

TokenValue(message, k) ==
    LET w == Words(message)[k]
    IN  HexVal(Strip0x(IF k = 1 THEN SubSeq(w, 1, Len(w) - 1) ELSE w))

\* the number of leading lines of q whose message is a table row
RECURSIVE RowPrefix(_)
RowPrefix(q) ==
    IF Len(q) > 0 /\ IsTableRow(Message(q[1])) THEN 1 + RowPrefix(Tail(q)) ELSE 0

\* C6: table format. After the table trigger every row of three hexadecimal
\* tokens is resolved at the value of its third token (the LR-save value).
C6_TableThirdToken ==
    (table_trace_found /\ IsTableTrigger(Message(log_file[1]))) =>
        /\ \A n \in Lookups :
              (n <= RowPrefix(Tail(log_file))) =>
                  /\ trace_addrs[n] = TokenValue(Message(log_file[n + 1]), 3)
                  /\ n <= Len(stack_trace_symbols)
                  /\ ResolvesTo(stack_trace_symbols[n], TokenValue(Message(log_file[n + 1]), 3))
        /\ pc \in {"write", "done"} => Len(trace_addrs) >= RowPrefix(Tail(log_file))

\* a row with 0x prefixes under a header and a bare row, both resolved at 0x2a
C6_Witness ==
    /\ pc = "done"
    /\ Len(log_file) >= 3
    /\ log_file[1] = TableTrigger
    /\ log_file[2] = Hdr \o "0x5: 0x10 0x2a\n"
    /\ log_file[3] = "5: 10 2a\n"
    /\ TokenValue(Message(log_file[2]), 1) = 5
    /\ TokenValue(Message(log_file[2]), 2) = 16
    /\ trace_addrs[1] = 42 /\ trace_addrs[2] = 42
    /\ stack_trace_symbols[2][2] = "g"
(***************************************************************************)
(* Properties of map_debug.py                                              *)
(***************************************************************************)
\* the references the logs of the reference scan are written with
KnownRefs ==
    { [ref |-> <<"a.dta", 5>>, text |-> "(file a.dta, line 5)"],
      [ref |-> <<"d/b.dta", 7>>, text |-> "(file d/b.dta, line 7)"] }

\* the reference k occurs on the line
Occurs(k, line) == Contains(line, k.text)

\* the reference k is the first reference on the line
FirstOn(k, line) ==
    /\ Occurs(k, line)
    /\ \A o \in KnownRefs : Occurs(o, line) => Find(line, k.text) <= Find(line, o.text)

\* the lines after both sentinels: after a start stack trace line that
\* follows an APP FAILED line
AfterGate(log) ==
    { n \in 1..Len(log) :
        \E a \in 1..Len(log), b \in 1..Len(log) :
            /\ a < b
            /\ b < n
            /\ Contains(log[a], "APP FAILED")
            /\ Contains(log[b], "start stack trace") }

\* how often the reference r is in the result
Times(r) == Cardinality({n \in 1..Len(refs) : refs[n] = r})

\* C7 (amended): when find_dta_references returns, a reference that is the
\* first one on some line after both sentinels is in the result exactly
\* once, however often it occurs; any other reference (before APP FAILED,
\* between the sentinels, on a sentinel line, or behind another reference on
\* its line) is not in the result
C7_GatedScan ==
    dpc = "branch" =>
        /\ \A n \in 1..Len(refs) : \E k \in KnownRefs : refs[n] = k.ref
        /\ \A k \in KnownRefs :
              Times(k.ref) =
                  IF \E n \in AfterGate(log_file) : FirstOn(k, log_file[n]) THEN 1 ELSE 0

\* a reference before APP FAILED and twice after both sentinels is once in
\* the result
C7_Witness ==
    /\ dpc = "branch"
    /\ Len(log_file) > 0
    /\ \E k \in KnownRefs :
          /\ Occurs(k, log_file[1])
          /\ Cardinality({n \in AfterGate(log_file) : FirstOn(k, log_file[n])}) >= 2
          /\ refs = <<k.ref>>

\* C7 as stated: every reference that occurs on a line after both sentinels
\* is in the result exactly once, and a reference that occurs on no such
\* line is not in it
C7_Original ==
    dpc = "branch" =>
        \A k \in KnownRefs :
            Times(k.ref) =
                IF \E n \in AfterGate(log_file) : Occurs(k, log_file[n]) THEN 1 ELSE 0

\* the references of the data-stack-trace block, in the block's order, as
\* the snippet stage would be handed them
BlockRefs ==
    [ n \in 1..Len(dst_lines) |->
        LET m == ReSearch(path_pattern, dst_lines[n])
        IN  << ResolvePath(Group(path_pattern, dst_lines[n], m, 1)),
               DecVal(Group(path_pattern, dst_lines[n], m, 2)) >> ]

RECURSIVE DirName(_)
\* the directory of a path, with its closing slash
DirName(path) ==
    IF path = "" \/ Ch(path, Len(path)) = "/" THEN path
    ELSE DirName(SubSeq(path, 1, Len(path) - 1))

\* the references of the directory of r whose path exists
ExistingSiblings(r) ==
    { n \in 1..Len(refs) :
        /\ DirName(refs[n][1]) = DirName(r[1])
        /\ ResolvePath(refs[n][1]) \in fs }

\* the path a majority vote gives r: the most frequent existing path of its
\* directory, the first seen of several
MajorityPath(r) ==
    LET count(n) == Cardinality({k \in 1..Len(refs) : refs[k][1] = refs[n][1]})
        best == CHOOSE n \in ExistingSiblings(r) :
                    \A k \in ExistingSiblings(r) :
                        count(k) < count(n) \/ (count(k) = count(n) /\ n <= k)
    IN  refs[best][1]

C10_FrameConditions ==
    /\ \A n \in 1..Len(snippets) :
          \E k \in 1..Len(refs) :
              /\ snippets[n][1] = ResolvePath(refs[k][1])
              /\ snippets[n][2] = refs[k][2]
    /\ \A n \in 1..Len(refs) :
          (dpc = "done" /\ ResolvePath(refs[n][1]) \in fs) =>
              \E k \in 1..Len(snippets) :
                  snippets[k] = << ResolvePath(refs[n][1]), refs[n][2] >>
    /\ ~ /\ dpc = "crashed"
         /\ exception = "NameError"
         /\ ExistingSiblings(refs[j]) = {}

\* C12: a frame whose demangle call raised (the demangler missing, or
\* failing for that symbol) is emitted with the address and the mangled name
\* of its symbol and with no demangled name, its output line is the address
\* and the name with no " -> " part, and the frames after it are resolved
\* and written as ever
C12_DemangleFailure ==
    /\ Len(demangle_raised) = Len(trace_addrs)
    /\ Len(stack_trace_symbols) = Len(trace_addrs)
    /\ \A n \in Lookups :
          /\ (~demangle /\ HasFloor(trace_addrs[n])) => demangle_raised[n]
          /\ demangle_raised[n] =>
                /\ HasFloor(trace_addrs[n])
                /\ ResolvesTo(stack_trace_symbols[n], trace_addrs[n])
                /\ stack_trace_symbols[n][3] = None
                /\ \A m \in Lookups :
                      m > n => ResolvesTo(stack_trace_symbols[m], trace_addrs[m])
                /\ pc = "done" =>
                      /\ Len(output_file) = Len(TraceOf(log_file))
                      /\ output_file[n] =
                            ToHex(stack_trace_symbols[n][1]) \o ": " \o stack_trace_symbols[n][2]
                      /\ ~Contains(output_file[n], " -> ")

\* the demangler answered the probe, raised for g and returned f's name
C12_Witness ==
    /\ pc = "done"
    /\ demangle
    /\ demangle_raised = <<TRUE, FALSE>>
    /\ output_file[1] = "20: g"
    /\ stack_trace_symbols[2] = <<16, "f", <<"f()">>>>
    /\ Contains(output_file[2], " -> f()")

RECURSIVE MarkerLines(_)
\* the lines that contain FAIL-MSG:, in file order
MarkerLines(log) ==
    IF Len(log) = 0 THEN <<>>
    ELSE (IF Contains(Head(log), "FAIL-MSG:") THEN <<Head(log)>> ELSE <<>>)
             \o MarkerLines(Tail(log))

\* the text after the line's first FAIL-MSG:, without the white space around it
AfterMarker(line) ==
    Strip(SubSeq(line, Find(line, "FAIL-MSG:") + Len("FAIL-MSG:"), Len(line)))

\* main has the result of extract_fail_messages
HasFails ==
    \/ dpc \in {"data_stack_trace", "references", "branch", "run_dta_debug", "done"}
    \/ dpc = "crashed" /\ seen_failed

\* C11: the failure-message scan gives one message for every line that
\* contains FAIL-MSG:, the text after the marker, in file order, equal
\* messages kept apart, wherever the line lies among the other markers
C11_FailMessages ==
    HasFails =>
        /\ Len(fails) = Len(MarkerLines(log_file))
        /\ \A n \in 1..Len(fails) : fails[n] = AfterMarker(MarkerLines(log_file)[n])

\* "boom" twice and the empty message, behind both sentinels and a reference
C11_Witness ==
    /\ dpc = "done"
    /\ Len(log_file) = 6
    /\ SubSeq(log_file, 1, 3) = GateLines
    /\ fails = <<"boom", "", "boom">>

\* w is n hexadecimal digits
IsHexField(w, n) == Len(w) = n /\ LeadHex(w) = w

\* w is decimal digits
IsDecField(w) == Len(w) > 0 /\ \A k \in 1..Len(w) : Ch(w, k) \in Digits

\* the symbol-line shape: four hexadecimal fields of 8, 6, 8 and 8 digits, a
\* decimal field, a name followed by white space, anything; the name is
\* empty when the decimal field is the last and two white-space characters
\* follow it
IsSymbolLine(line) ==
    LET w == Words(line)
    IN  /\ Len(w) >= 5
        /\ IsHexField(w[1], 8) /\ IsHexField(w[2], 6)
        /\ IsHexField(w[3], 8) /\ IsHexField(w[4], 8)
        /\ IsDecField(w[5])
        /\ Ch(line, Len(line)) \in Space
        /\ Len(w) = 5 => Ch(line, Len(line) - 1) \in Space

\* the entry of a symbol line: the third field as the address, the name
SymbolOf(line) ==
    LET w == Words(line)
    IN  << HexVal(w[3]), IF Len(w) = 5 THEN "" ELSE w[6] >>

RECURSIVE SymbolLines(_)
\* the entries of the symbol lines of a map, in file order
SymbolLines(map) ==
    IF Len(map) = 0 THEN <<>>
    ELSE (IF IsSymbolLine(Head(map)) THEN <<SymbolOf(Head(map))>> ELSE <<>>)
             \o SymbolLines(Tail(map))

\* C14: while the map is read, the table holds one entry for each symbol
\* line read so far and none for any other line; afterwards it holds these
\* entries sorted; a map without symbol lines gives the empty table, with
\* which the log is processed to its end, every address resolving to the
\* invalid sentinel
C14_TolerantMap ==
    /\ pc = "read_map" => map_symbols = SymbolLines(SubSeq(map_file, 1, i - 1))
    /\ pc \in {"scan", "write", "done"} =>
          LET lines == SymbolLines(map_file)
          IN  /\ Len(map_symbols) = Len(lines)
              /\ TableEntries = {lines[n] : n \in 1..Len(lines)}
              /\ (pc = "done" /\ lines = <<>>) =>
                    /\ stack_trace_symbols = << InvalidFrame(42), InvalidFrame(15) >>
                    /\ output_file = << "2a: <invalid>", "f: <invalid>" >>

\* a map of three lines none of which is a symbol line, the log processed
C14_Witness ==
    /\ pc = "done"
    /\ map_file = << MapLineJunk, MapLineBehind, MapLineShort >>
    /\ map_symbols = <<>>
    /\ Len(output_file) = 2

\* C18: table format. When the scan of a log that starts with the table
\* trigger is over, it has looked up one address for each of the leading
\* rows of three hexadecimal tokens and none for the first other line (a row
\* of two tokens, say) or any line behind it
C18_TwoTokenRowEnds ==
    ( /\ pc \in {"write", "done"}
      /\ Len(log_file) > 0
      /\ IsTableTrigger(Message(log_file[1])) ) =>
        Len(trace_addrs) = RowPrefix(Tail(log_file))

RECURSIVE FirstTrigger(_, _)
\* the index of the first line from n on whose message is a trigger, 0 if none
FirstTrigger(log, n) ==
    IF n > Len(log) THEN 0
    ELSE IF IsOldTrigger(Message(log[n])) \/ IsTableTrigger(Message(log[n])) THEN n
    ELSE FirstTrigger(log, n + 1)

\* the line belongs to a trace of the format the trigger line t opened: an
\* address line in the old format, a row of three tokens in the table format
InTrace(log, t, n) ==
    IF IsOldTrigger(Message(log[t])) THEN IsAddrLine(log[n])
    ELSE IsTableRow(Message(log[n]))

RECURSIVE TraceRun(_, _, _)
\* the number of consecutive trace lines from line n on
TraceRun(log, t, n) ==
    IF n <= Len(log) /\ InTrace(log, t, n) THEN 1 + TraceRun(log, t, n + 1) ELSE 0

\* C19: the stack-trace scan. No frame comes from a line before the first
\* trigger line or from the trigger line; behind it every line scanned so
\* far has given one frame; the scan never goes past the first line that is
\* no trace line, so that no line behind that one gives a frame, a second
\* trigger and trace lines behind it included
C19_StateMachine ==
    LET t == FirstTrigger(log_file, 1)
        run == TraceRun(log_file, t, t + 1)
    IN  /\ pc = "scan" =>
              IF t = 0 \/ i <= t + 1 THEN stack_trace_symbols = <<>>
              ELSE /\ Len(stack_trace_symbols) = i - t - 1
                   /\ i <= t + run + 1
        /\ pc \in {"write", "done"} =>
              Len(stack_trace_symbols) = IF t = 0 THEN 0 ELSE run

\* a trace line before the trigger, one behind it, and the trace's end
\* before a second trace line: one frame
C19_Witness ==
    /\ pc = "done"
    /\ log_file = << "5: 10 2a\n", TableTrigger, "5: 10 2a\n", "--\n" >>
    /\ Len(stack_trace_symbols) = 1
    /\ stack_trace_symbols[1][2] = "g"

\* C20: at most one of the two format flags is set, and a flag that is set
\* stays set while the other stays clear, whatever trigger lines follow
C20_FormatFixed ==
    [][ /\ ~(stack_trace_found' /\ table_trace_found')
        /\ stack_trace_found => stack_trace_found'
        /\ table_trace_found => table_trace_found' ]_vars

\* the table trigger, then the old trigger scanned with the table format kept
C20_Witness ==
    /\ Len(log_file) >= 2
    /\ log_file[1] = TableTrigger
    /\ log_file[2] = OldTrigger
    /\ pc \in {"write", "done"}
    /\ table_trace_found
    /\ ~stack_trace_found

\* the sections of a log
HasTrigger(log) ==
    \E n \in 1..Len(log) :
        IsOldTrigger(Message(log[n])) \/ IsTableTrigger(Message(log[n]))

HasFailMsg(log) == \E n \in 1..Len(log) : Contains(log[n], "FAIL-MSG:")

HasBlockMarker(log) == \E n \in 1..Len(log) : Contains(log[n], "Data Stack Trace")

HasSentinels(log) ==
    \E a \in 1..Len(log), b \in 1..Len(log) :
        a < b /\ Contains(log[a], "APP FAILED") /\ Contains(log[b], "start stack trace")

\* C13: a section the log lacks gives an empty result (no frame, no message,
\* no block line, no reference), and no exception ends the run of such a
\* log; only a failing child process (the reader on an unreadable map, the
\* snippet tool) may end it, which is no matter of the log
C13_AbsentIsNoError ==
    /\ ~HasTrigger(log_file) => stack_trace_symbols = <<>> /\ output_file = <<>>
    /\ ~HasFailMsg(log_file) => fails = <<>>
    /\ ~HasBlockMarker(log_file) => dst_lines = <<>>
    /\ ~HasSentinels(log_file) => refs_set = {} /\ refs = <<>> /\ snippets = <<>>
    /\ ( /\ \/ ~HasTrigger(log_file)
            \/ ~HasFailMsg(log_file)
            \/ ~HasBlockMarker(log_file)
            \/ ~HasSentinels(log_file)
         /\ dpc = "crashed" ) => exception = "CalledProcessError"

\* C15: when the reader fails on the map, no address has been resolved and
\* nothing is in the resolved-stack file; main is waiting for the reader or
\* has ended with the error of the failed child process, and then it has
\* produced no failure message, no block line, no reference and no snippet,
\* and takes no further step
C15_AbortFirst ==
    pc = "failed" =>
        /\ trace_addrs = <<>>
        /\ stack_trace_symbols = <<>>
        /\ output_file = <<>>
        /\ dpc \in {"stack_reader", "crashed"}
        /\ dpc = "crashed" =>
              /\ exception = "CalledProcessError"
              /\ fails = <<>>
              /\ ~seen /\ dst_lines = <<>>
              /\ ~seen_failed /\ ~seen_start /\ refs_set = {} /\ refs = <<>>
              /\ snippets = <<>>
              /\ ~no_refs_reported
              /\ ~ENABLED NextMain

\* the reader failed on the map of a log with every section, and main ended
C15_Witness ==
    /\ pc = "failed"
    /\ dpc = "crashed"
    /\ exception = "CalledProcessError"
    /\ log_file = FullLog
    /\ fs # {}

\* C16: no step of the reader or of main changes the map file or the log
\* file (nor the data files found on disk); a step that writes a file adds
\* a line to the resolved-stack file
C16_InputsReadOnly ==
    [][ /\ map_file' = map_file
        /\ log_file' = log_file
        /\ fs' = fs
        /\ output_file' # output_file =>
              /\ pc = "write"
              /\ Len(output_file') = Len(output_file) + 1
              /\ SubSeq(output_file', 1, Len(output_file)) = output_file ]_vars

\* the whole run is over: the resolved-stack file is written, main is done,
\* map and log are as they were given
C16_Witness ==
    /\ pc = "done"
    /\ dpc = "done"
    /\ Len(output_file) > 1
    /\ map_file = ParserMap
    /\ log_file = FullLog

\* the references of the sorting logs, ascending by (path, line): paths by
\* the code points of their characters, lines as numbers
Ascending ==
    << [ref |-> <<"Z.dta", 12>>, text |-> "(file Z.dta, line 12)"],
       [ref |-> <<"a.dta", 9>>, text |-> "(file a.dta, line 9)"],
       [ref |-> <<"a.dta", 10>>, text |-> "(file a.dta, line 10)"] >>

\* the references of Ascending that the log holds after both sentinels
AscendingIn(log) ==
    LET Held(k) == \E n \in AfterGate(log) : Contains(log[n], k.text)
        held == SelectSeq(Ascending, Held)
    IN  [n \in 1..Len(held) |-> held[n].ref]

\* C17: the list find_dta_references returns holds no pair twice and is
\* ascending by (path, line), whatever the order and the number of the
\* references in the log
C17_SortedNoDuplicates ==
    dpc = "branch" =>
        /\ \A m \in 1..Len(refs), n \in 1..Len(refs) : refs[m] = refs[n] => m = n
        /\ refs = AscendingIn(log_file)

\* a.dta:10 first, then Z.dta:12, then a.dta:10 again
C17_Witness ==
    /\ dpc = "branch"
    /\ log_file = << AppFailed, StartTrace, RefLine("a.dta", "10"),
                     RefLine("Z.dta", "12"), RefLine("a.dta", "10") >>
    /\ refs = << <<"Z.dta", 12>>, <<"a.dta", 10>> >>

\* the text of a line: the line without its line end
LineText(line) ==
    IF Len(line) > 0 /\ Ch(line, Len(line)) = "\n" THEN SubSeq(line, 1, Len(line) - 1)
    ELSE line

\* the message body of a line: what follows the N[OSREPORT]: tag of the
\* header, the whole text when the line carries no header
BodyOf(line) ==
    IF ReMatch(log_msg_pattern, line).ok THEN Message(line) ELSE LineText(line)

\* C21: once the first line of the log is scanned, the old format is entered
\* if that line's message body is the old-format marker, whether the line
\* carries the header or its whole text is the marker
C21_HeaderlessTrigger ==
    ( /\ pc \in {"scan", "write", "done"}
      /\ Len(log_file) > 0
      /\ pc = "scan" => i > 1
      /\ BodyOf(log_file[1]) = "Stack Trace (map file unavailable)" ) =>
        stack_trace_found

\* C22: the script is never left waiting for the demangler: when it waits
\* in a call of the demangler, a further step is possible (the call returns,
\* or is given up as failed), so that the scan of the log goes on
C22_BoundedDemangling == pc = "blocked" => ENABLED NextReader

\* s holds a token path.ext(NN): behind the start of a word a run of
\* non-space characters, a dot, word characters, and a decimal number in
\* round brackets
HasPathToken(s) ==
    \E k \in 1..Len(s) :
        /\ Ch(s, k) = "("
        /\ \E t \in (k + 1)..(Len(s) - 1) :
              /\ \A n \in (k + 1)..t : Ch(s, n) \in Digits
              /\ Ch(s, t + 1) = ")"
        /\ \E d \in 2..(k - 2) :
              /\ Ch(s, d) = "."
              /\ \A n \in (d + 1)..(k - 1) : Ch(s, n) \in WordChars
              /\ \E p \in 1..(d - 1) :
                    /\ \A n \in p..(d - 1) : Ch(s, n) \notin Space
                    /\ Ch(s, p) \in WordChars
                    /\ p > 1 => Ch(s, p - 1) \notin WordChars

\* the line without its prefix up to the first N[OSREPORT]: tag
AfterTag(line) ==
    LET k == Find(line, "N[OSREPORT]:")
    IN  IF k = 0 THEN line ELSE SubSeq(line, k + 12, Len(line))

\* a block line: not blank, and with a path token behind its prefix
IsBlockLine(line) ==
    /\ \E n \in 1..Len(line) : Ch(line, n) \notin Space
    /\ HasPathToken(AfterTag(line))

RECURSIVE FirstMarker(_, _)
\* the index of the first line from n on that contains the marker, 0 if none
FirstMarker(log, n) ==
    IF n > Len(log) THEN 0
    ELSE IF Contains(log[n], "Data Stack Trace") THEN n
    ELSE FirstMarker(log, n + 1)

RECURSIVE BlockRun(_, _)
\* the number of consecutive block lines from line n on
BlockRun(log, n) ==
    IF n <= Len(log) /\ IsBlockLine(log[n]) THEN 1 + BlockRun(log, n + 1) ELSE 0

\* show_data_stack_trace has returned
BlockShown ==
    \/ dpc \in {"references", "branch", "run_dta_debug", "done"}
    \/ dpc = "crashed" /\ refs # <<>>

\* C23: the data-stack-trace scan. Nothing is retained up to and with the
\* first marker line; behind it every line scanned so far is retained; the
\* scan never goes past the first line that is blank or no block line, so
\* that the retained lines are, in the end, exactly the run of block lines
\* right behind the first marker line, each without its prefix
C23_DataStackTrace ==
    LET m == FirstMarker(log_file, 1)
        run == IF m = 0 THEN 0 ELSE BlockRun(log_file, m + 1)
    IN  /\ seen <=> (m > 0 /\ (BlockShown \/ (dpc = "data_stack_trace" /\ j > m)))
        /\ dpc = "data_stack_trace" =>
              IF m = 0 \/ j <= m + 1 THEN dst_lines = <<>>
              ELSE /\ Len(dst_lines) = j - m - 1
                   /\ j <= m + run + 1
        /\ BlockShown => Len(dst_lines) = run
        /\ \A n \in 1..Len(dst_lines) : dst_lines[n] = RStrip(AfterTag(log_file[m + n]))

\* a block of a headered line, ended by a blank line before a second marker
\* and a block line
C23_Witness ==
    /\ dpc = "done"
    /\ log_file = << "Data Stack Trace\n", Hdr \o "at y.dta(3)\n", "\n", "x.dta(12)\n" >>
    /\ dst_lines = << " at y.dta(3)" >>

RECURSIVE FirstWith(_, _, _)
\* the index of the first line from n on that contains the text, 0 if none
FirstWith(log, text, n) ==
    IF n > Len(log) THEN 0
    ELSE IF Contains(log[n], text) THEN n
    ELSE FirstWith(log, text, n + 1)

\* the line that opens the gate: the first start stack trace line behind
\* the first APP FAILED line, 0 if there is none
GateLine(log) ==
    LET f == FirstWith(log, "APP FAILED", 1)
    IN  IF f = 0 THEN 0 ELSE FirstWith(log, "start stack trace", f + 1)

\* C24: while the references are scanned, the first gate is passed exactly
\* when an APP FAILED line has been read and the second exactly when a start
\* stack trace line behind it has been read; every reference collected is
\* the first one of a line behind that line, so that none is collected from
\* a line between the sentinels, or behind a start stack trace line that
\* stands before APP FAILED
C24_GateSequence ==
    dpc = "references" =>
        LET f == FirstWith(log_file, "APP FAILED", 1)
            s == GateLine(log_file)
        IN  /\ seen_failed <=> (f > 0 /\ j > f)
            /\ seen_start <=> (s > 0 /\ j > s)
            /\ refs_set =
                  { k.ref : k \in { o \in KnownRefs :
                                      /\ s > 0
                                      /\ \E n \in (s + 1)..(j - 1) : FirstOn(o, log_file[n]) } }

\* start stack trace before APP FAILED, a reference between the sentinels,
\* another behind both: only the last is collected
C24_Witness ==
    /\ dpc = "references"
    /\ j = 6
    /\ log_file = << StartTrace, AppFailed, RefLine("a.dta", "5"), StartTrace, TwoRefLine >>
    /\ refs_set = { <<"d/b.dta", 7>> }

\* the scan s has read the whole log or has left its loop
Ended(s) == scan_at[s] > Len(log_file)

\* C25: in whatever order the three scans take their steps, and however
\* far the other two have come, a scan that has ended has the result that
\* the log alone determines: the messages of the FAIL-MSG lines, the block
\* lines right behind the first marker, the first references of the lines
\* behind the gate
C25_ScansIndependent ==
    LET m == FirstMarker(log_file, 1)
        run == IF m = 0 THEN 0 ELSE BlockRun(log_file, m + 1)
        s == GateLine(log_file)
        marked == MarkerLines(log_file)
    IN  /\ Ended("extract_fail_messages") =>
              fails = [n \in 1..Len(marked) |-> AfterMarker(marked[n])]
        /\ Ended("show_data_stack_trace") =>
              dst_lines = [n \in 1..run |-> RStrip(AfterTag(log_file[m + n]))]
        /\ Ended("find_dta_references") =>
              refs_set =
                  { k.ref : k \in { o \in KnownRefs :
                                      /\ s > 0
                                      /\ \E n \in (s + 1)..Len(log_file) :
                                            FirstOn(o, log_file[n]) } }

\* the reference scan has ended with its result before the failure-message
\* scan has read its second line, the block scan being in the block
C25_Witness ==
    /\ log_file = ScansLog
    /\ scan_at = [ extract_fail_messages |-> 2, show_data_stack_trace |-> 4,
                   find_dta_references |-> 8 ]
    /\ fails = << "boom" >>
    /\ dst_lines = << "x.dta(12)" >>
    /\ refs_set = { <<"d/b.dta", 7>> }

\* C26: every scan comes to its end within as many steps as the log has
\* lines. The parser and the scans of main have read one line per step
\* taken, in file order, and never go beyond the end of the log; and no
\* scan stays in the step for a line: where the parser waits in a call, a
\* further step is possible
C26_ScansTerminate ==
    /\ pc \in {"scan", "blocked"} => i \in 1..(Len(log_file) + 1)
    /\ pc \in {"scan", "blocked"} => Len(stack_trace_symbols) <= i - 1
    /\ dpc \in {"data_stack_trace", "references"} => j \in 1..(Len(log_file) + 1)
    /\ dpc = "data_stack_trace" => Len(dst_lines) <= j - 1
    /\ pc = "blocked" => ENABLED NextMain

\* the table is built: the map has been read and sorted
TableBuilt == pc \in {"scan", "blocked", "write", "done"}

\* C27: no address is looked up before the table is built; the built table
\* has an entry for every symbol line of the map, in ascending order of
\* address, with map_addrs listing the addresses; and no step taken once
\* the table is built (of the scan of the log, or of the writer) changes it
C27_TableInvariant ==
    /\ [](trace_addrs # <<>> => TableBuilt)
    /\ [](TableBuilt =>
            /\ Len(map_symbols) = Len(SymbolLines(map_file))
            /\ \A n \in 1..(Len(map_symbols) - 1) : map_symbols[n][1] <= map_symbols[n + 1][1]
            /\ map_addrs = [n \in 1..Len(map_symbols) |-> map_symbols[n][1]])
    /\ [][TableBuilt => (map_symbols' = map_symbols /\ map_addrs' = map_addrs)]_vars

\* a map with k at 0x30 before f at 0x10, sorted before both addresses of
\* the log were resolved and the frames written
C27_Witness ==
    /\ pc = "done"
    /\ map_file = << MapLineK, MapLineJunk, MapLineIndented >>
    /\ map_symbols = << <<16, "f">>, <<48, "k">> >>
    /\ Len(trace_addrs) = 2
    /\ Len(output_file) = 2

\* the index of the last line of the map that is a symbol line for the
\* address a, 0 if there is none
LastLineFor(map, a) ==
    LET at == {m \in 1..Len(map) : IsSymbolLine(map[m]) /\ SymbolOf(map[m])[1] = a}
    IN  IF at = {} THEN 0 ELSE CHOOSE m \in at : \A o \in at : o <= m

\* C28: a frame that is no invalid frame carries the name of the last line
\* of the map file that defines the frame's address, however many lines
\* define that address
C28_LastWins ==
    pc \in {"scan", "blocked", "write", "done"} =>
        \A n \in 1..Len(stack_trace_symbols) :
            stack_trace_symbols[n][2] # "<invalid>" =>
                LET last == LastLineFor(map_file, stack_trace_symbols[n][1])
                IN  /\ last > 0
                    /\ stack_trace_symbols[n][2] = SymbolOf(map_file[last])[2]

\* 0x20 defined as g, then f, then 0x20 again as h: 0x2a and 0x20 resolve to h
C28_Witness ==
    /\ pc = "done"
    /\ map_file = << MapLineG, MapLineF, MapLineH >>
    /\ Len(stack_trace_symbols) = 2
    /\ stack_trace_symbols[1][2] = "h"
    /\ stack_trace_symbols[2][2] = "h"
    /\ trace_addrs = << 42, 32 >>

RECURSIVE OnDisk(_)
\* the references of the list q whose file is on disk, in q's order, as the
\* <<path, line>> the snippet tool is run on
OnDisk(q) ==
    IF Len(q) = 0 THEN <<>>
    ELSE (IF ResolvePath(Head(q)[1]) \in fs
          THEN << <<ResolvePath(Head(q)[1]), Head(q)[2]>> >> ELSE <<>>)
             \o OnDisk(Tail(q))

\* C29: the snippet stage never ends with an error of its own over a
\* missing file, and the snippet tool has been run on exactly those of the
\* references handled so far whose file is on disk, in list order
C29_MissingFilesSkipped ==
    /\ exception # "NameError"
    /\ dpc = "run_dta_debug" => snippets = OnDisk(SubSeq(refs, 1, j - 1))
    /\ (dpc = "done" /\ refs # <<>>) => snippets = OnDisk(refs)

\* C30: a step of the reference scan taken before the first gate is passed
\* leaves the second gate closed and collects nothing, whatever the line
\* holds besides APP FAILED; a step taken before the second gate is passed
\* collects nothing, whatever the line holds besides start stack trace
C30_SentinelsConsumed ==
    [][ (dpc = "references" /\ dpc' = "references") =>
            /\ ~seen_failed => (seen_start' = seen_start /\ refs_set' = refs_set)
            /\ ~seen_start => refs_set' = refs_set ]_vars

\* the line with both sentinels passed the first gate only, the next line
\* opened the second and its reference was not collected; the reference
\* behind it was
C30_Witness ==
    /\ dpc = "branch"
    /\ log_file = << BothSentinels, StartWithRef, RefLine("d/b.dta", "7") >>
    /\ seen_failed /\ seen_start
    /\ refs = << <<"d/b.dta", 7>> >>

\* C31: a step of the old-format scan on a line whose message, behind its
\* leading white space, begins with no hexadecimal digit ends the trace and
\* looks up nothing; on any other line the trace goes on, and the address
\* looked up is the value of the line's leading run of hexadecimal digits,
\* whatever text follows it
C31_HexLeadingLines ==
    [][ (pc = "scan" /\ stack_trace_found /\ i <= Len(log_file)) =>
            IF IsAddrLine(log_file[i])
            THEN /\ pc' \in {"scan", "blocked"}
                 /\ pc' = "scan" =>
                       /\ i' = i + 1
                       /\ trace_addrs' = Append(trace_addrs, AddrOf(log_file[i]))
                       /\ Len(stack_trace_symbols') = Len(stack_trace_symbols) + 1
            ELSE /\ pc' = "write"
                 /\ trace_addrs' = trace_addrs
                 /\ stack_trace_symbols' = stack_trace_symbols ]_vars

\* the table header and a failure message were consumed as the addresses
\* 0xADD and 0xFA, and the blank line ended the trace
C31_Witness ==
    /\ pc = "done"
    /\ log_file = << OldTrigger, TableTrigger, "FAIL-MSG: boom\n", "\n" >>
    /\ trace_addrs = << 2781, 250 >>
    /\ Len(output_file) = 2

=============================================================================
